---- MODULE Spec2Model ----
(***************************************************************************)
(* Model of the Apigee -> Kong migration backend (src/backend): the        *)
(* structured-output helpers (_safe_json_loads, _split_sections,           *)
(* strip_code_fences), the stage functions and the api_generate /          *)
(* set_config request handlers of server.py.                               *)
(*                                                                         *)
(* Texts are sequences of tokens.  A JSON text is a sequence of JSON       *)
(* lexemes (punctuation, "key": lexemes, scalars) and prose lexemes; a     *)
(* line-oriented text (YAML, plugin files) is a sequence of lines.  Every  *)
(* token and every parsed JSON value is a record of one shape,             *)
(* [t, n, s, keys, items], so that any two of them can be compared.        *)
(***************************************************************************)
EXTENDS Integers, Sequences, FiniteSets, TLC

VARIABLES
    jtext, jout, jpc,         \* _safe_json_loads: input text, result, position
    stext, sout, spc,         \* _split_sections: input text, result, position
    \* server.py, process-wide
    environ,                  \* os.environ
    SETTINGS,                 \* the llm section of settings.yaml
    LLM,                      \* the adapter (LLMClient) the global LLM names
    services,                 \* the stage objects: the adapter each was built with
    created,                  \* how many adapters were constructed so far
    \* the set_config request being served
    cpc, cdata, creqs,
    \* the api_generate request being served: position and locals
    pc, upload, tmp_path, bundle, analysis, kong_yaml, todo, spec, plugins_out,
    val, cov, stats, rpt, tests, result,
    \* the temp directory: the file api_generate saves the upload to
    disk,
    \* history: the backend calls of the run, the extensions it produced
    calls, produced,
    \* one call of a function of the services: its name, argument, what it
    \* returned or raised, position
    callee, farg, fret, fpc

jvars == <<jtext, jout, jpc>>
svars == <<stext, sout, spc>>
gvars == <<environ, SETTINGS, LLM, services, created>>
cvars == <<cpc, cdata, creqs>>
locals == <<upload, tmp_path, bundle, analysis, kong_yaml, todo, spec, plugins_out,
            val, cov, stats, rpt, tests>>
rvars == <<pc, locals, result, calls, produced, disk>>
fvars == <<callee, farg, fret, fpc>>
vars == <<jvars, svars, gvars, cvars, rvars, fvars>>

(***************************************************************************)
(* Bounds of the model                                                     *)
(***************************************************************************)
MaxJsonLen == 5
MaxSecLen == 5
MaxFiles == 2
MaxReconfig == 2
MaxTemplateMsgs == 2
MaxContentLen == 3
MaxMessages == 3
MaxCandidates == 2
MaxParts == 2
MaxValidationLen == 4
MaxMappings == 4
MaxEntries == 3
MaxFragments == 2

(***************************************************************************)
(* Values and tokens                                                       *)
(***************************************************************************)
JV(t, n, s, keys, items) == [t |-> t, n |-> n, s |-> s, keys |-> keys, items |-> items]
Tok(t) == JV(t, 0, "", <<>>, <<>>)

LB == Tok("{")
RB == Tok("}")
LSB == Tok("[")
RSB == Tok("]")
Comma == Tok(",")
Prose == Tok("prose")
Key(k) == JV("key", 0, k, <<>>, <<>>)
Num(n) == JV("num", n, "", <<>>, <<>>)
Str(s) == JV("str", 0, s, <<>>, <<>>)
Bool(b) == JV("bool", IF b THEN 1 ELSE 0, "", <<>>, <<>>)
Null == Tok("null")
Obj(keys, items) == JV("obj", 0, "", keys, items)
Arr(items) == JV("arr", 0, "", <<>>, items)
EmptyObj == Obj(<<>>, <<>>)

ScalarTags == {"num", "str", "bool", "null"}

\* Lines of a line-oriented text: a "=== FILE: <name> ===" marker line, a
\* code-fence line (``` with an optional language tag), any other line.
\* Lines carry no leading or trailing blanks; Line("") is an empty line.
Marker(name) == JV("marker", 0, name, <<>>, <<>>)
Fence(lang) == JV("fence", 0, lang, <<>>, <<>>)
Line(s) == JV("line", 0, s, <<>>, <<>>)
\* A string value held in a dict: its lines.
TextV(lines) == JV("text", 0, "", <<>>, lines)

\* The exception json.loads raises on a text that is not a JSON document.
JSONDecodeError == Tok("JSONDecodeError")

(***************************************************************************)
(* The parts of the state a specification does not use stay as they are    *)
(***************************************************************************)
IdleJson ==
    /\ jtext = <<>>
    /\ jout = Null
    /\ jpc = "off"

IdleSections ==
    /\ stext = <<>>
    /\ sout = Null
    /\ spc = "off"

IdleCall ==
    /\ callee = ""
    /\ farg = Null
    /\ fret = Null
    /\ fpc = "off"

(***************************************************************************)
(* Helpers on finite sets of integers and on sequences                     *)
(***************************************************************************)
SetMin(S) == CHOOSE x \in S : \A y \in S : x <= y
SetMax(S) == CHOOSE x \in S : \A y \in S : x >= y
\* the k-th smallest element of S, k in 1..Cardinality(S)
Nth(S, k) == CHOOSE x \in S : Cardinality({y \in S : y < x}) = k - 1
\* all sequences over S of length at most n
SeqsUpTo(S, n) == UNION {[1..k -> S] : k \in 0..n}

(***************************************************************************)
(* json.loads on a token text                                              *)
(***************************************************************************)
Depth(s, i) ==
    Cardinality({j \in 1..(i-1) : s[j].t \in {"{", "["}})
    - Cardinality({j \in 1..(i-1) : s[j].t \in {"}", "]"}})

\* s cut at its commas of nesting depth 0
SplitTop(s) ==
    LET C == {i \in 1..Len(s) : s[i].t = "," /\ Depth(s, i) = 0}
        n == Cardinality(C)
        from(k) == IF k = 1 THEN 1 ELSE Nth(C, k-1) + 1
        to(k) == IF k = n + 1 THEN Len(s) ELSE Nth(C, k) - 1
    IN  [k \in 1..(n+1) |-> SubSeq(s, from(k), to(k))]

\* dict(pairs): a key keeps the position of its first occurrence and the
\* value of its last one
MakeDict(pairs) ==
    LET First == {i \in DOMAIN pairs : \A j \in 1..(i-1) : pairs[j][1] # pairs[i][1]}
        n == Cardinality(First)
        last(k) == SetMax({j \in DOMAIN pairs : pairs[j][1] = k})
    IN  Obj([i \in 1..n |-> pairs[Nth(First, i)][1]],
            [i \in 1..n |-> pairs[last(pairs[Nth(First, i)][1])][2]])

RECURSIVE json_loads(_)
json_loads(s) ==
    IF Len(s) = 0 THEN JSONDecodeError
    ELSE IF Len(s) = 1
    THEN IF s[1].t \in ScalarTags THEN s[1] ELSE JSONDecodeError
    ELSE IF s[1].t = "{" /\ s[Len(s)].t = "}"
    THEN LET inner == SubSeq(s, 2, Len(s) - 1)
             segs == SplitTop(inner)
             member(k) == json_loads(Tail(segs[k]))
             ok(k) == /\ Len(segs[k]) >= 2
                      /\ segs[k][1].t = "key"
                      /\ member(k) # JSONDecodeError
         IN  IF Len(inner) = 0 THEN EmptyObj
             ELSE IF \A k \in DOMAIN segs : ok(k)
             THEN MakeDict([k \in DOMAIN segs |-> <<segs[k][1].s, member(k)>>])
             ELSE JSONDecodeError
    ELSE IF s[1].t = "[" /\ s[Len(s)].t = "]"
    THEN LET inner == SubSeq(s, 2, Len(s) - 1)
             segs == SplitTop(inner)
         IN  IF Len(inner) = 0 THEN Arr(<<>>)
             ELSE IF \A k \in DOMAIN segs : json_loads(segs[k]) # JSONDecodeError
             THEN Arr([k \in DOMAIN segs |-> json_loads(segs[k])])
             ELSE JSONDecodeError
    ELSE JSONDecodeError

(***************************************************************************)
(* Python dict / truthiness helpers on parsed values                       *)
(***************************************************************************)
IsDict(v) == v.t = "obj"
IsList(v) == v.t = "arr"
HasKey(v, k) == \E i \in DOMAIN v.keys : v.keys[i] = k
\* v.get(k, default) for a dict v
Get(v, k, default) ==
    IF HasKey(v, k) THEN v.items[CHOOSE i \in DOMAIN v.keys : v.keys[i] = k]
    ELSE default
\* bool(v)
Truthy(v) ==
    CASE v.t = "null" -> FALSE
      [] v.t = "bool" -> v.n = 1
      [] v.t = "num" -> v.n # 0
      [] v.t = "str" -> v.s # ""
      [] v.t = "arr" -> Len(v.items) > 0
      [] v.t = "obj" -> Len(v.keys) > 0
      [] v.t = "text" -> ~(v.items = <<>> \/ v.items = <<Line("")>>)
      [] OTHER -> TRUE
\* d[k] = x for a dict d
SetItem(d, k, x) ==
    IF HasKey(d, k)
    THEN [d EXCEPT !.items[CHOOSE i \in DOMAIN d.keys : d.keys[i] = k] = x]
    ELSE [d EXCEPT !.keys = Append(@, k), !.items = Append(@, x)]
\* d.setdefault(k, x)
SetDefault(d, k, x) == IF HasKey(d, k) THEN d ELSE SetItem(d, k, x)

(***************************************************************************)
(* _safe_json_loads                                                        *)
(***************************************************************************)
\* list(_JSON_BLOCKS.finditer(text)) for _JSON_BLOCKS = \{[\s\S]*\} : the
\* greedy body runs from the first "{" to the last "}" of the text, and no
\* "}" is left for a second match.
JSON_BLOCKS(text) ==
    LET opens == {i \in 1..Len(text) : text[i].t = "{"}
        closes == {j \in 1..Len(text) : text[j].t = "}" /\ j > SetMin(opens)}
    IN  IF opens = {} THEN <<>>
        ELSE IF closes = {} THEN <<>>
        ELSE <<SubSeq(text, SetMin(opens), SetMax(closes))>>

\* blocks.sort(key=len, reverse=True): stable, longest first
SortByLenDesc(blocks) ==
    LET rank(i) == Cardinality({j \in DOMAIN blocks :
                        \/ Len(blocks[j]) > Len(blocks[i])
                        \/ (Len(blocks[j]) = Len(blocks[i]) /\ j < i)}) + 1
    IN  [r \in DOMAIN blocks |-> blocks[CHOOSE i \in DOMAIN blocks : rank(i) = r]]

\* the loop over the sorted blocks: the first one that parses, else {}
FirstParsed(blocks) ==
    LET good == {i \in DOMAIN blocks : json_loads(blocks[i]) # JSONDecodeError}
    IN  IF good = {} THEN EmptyObj ELSE json_loads(blocks[SetMin(good)])

\* try: return json.loads(text) / except: the blocks; `direct` is what
\* json.loads(text) gave
OrBlocks(direct, text) ==
    IF direct # JSONDecodeError THEN direct
    ELSE FirstParsed(SortByLenDesc(JSON_BLOCKS(text)))

safe_json_loads(text) == OrBlocks(json_loads(text), text)

\* the copy in coverage.py
coverage_safe_json_loads(text) == OrBlocks(json_loads(text), text)

(***************************************************************************)
(* _split_sections                                                         *)
(***************************************************************************)
\* _CODE_FENCE.sub("", s): a fence line becomes an empty line
CODE_FENCE_sub(s) == [i \in DOMAIN s |-> IF s[i].t = "fence" THEN Line("") ELSE s[i]]

\* str.strip() on a text: leading and trailing empty lines go
Strip(lines) ==
    LET full == {i \in DOMAIN lines : lines[i] # Line("")}
    IN  IF full = {} THEN <<>> ELSE SubSeq(lines, SetMin(full), SetMax(full))

\* the end of the k-th section: the start of the next marker, or len(s)
SectionEndUnbounded(s, M, k) == Len(s)
SectionEnd(s, M, k) ==
    IF k < Cardinality(M) THEN Nth(M, k + 1) - 1 ELSE Len(s)

\* the loop over the marker matches, up to the k-th
RECURSIVE MarkedFiles(_, _, _)
MarkedFiles(s, M, k) ==
    IF k = 0 THEN EmptyObj
    ELSE SetItem(MarkedFiles(s, M, k - 1), s[Nth(M, k)].s,
                 TextV(Strip(SubSeq(s, Nth(M, k) + 1, SectionEnd(s, M, k)))))

\* re.split(r'(?i)\bschema\.lua\b', s): the text cut at every mention
SchemaSplit(s) ==
    LET C == {i \in DOMAIN s : s[i] = Line("schema.lua")}
        n == Cardinality(C)
        from(k) == IF k = 1 THEN 1 ELSE Nth(C, k-1) + 1
        to(k) == IF k = n + 1 THEN Len(s) ELSE Nth(C, k) - 1
    IN  [k \in 1..(n+1) |-> SubSeq(s, from(k), to(k))]

split_sections(text) ==
    IF Len(text) = 0 THEN EmptyObj
    ELSE LET s == CODE_FENCE_sub(text)
             M == {i \in DOMAIN s : s[i].t = "marker"}
             parts == SchemaSplit(s)
         IN  IF M # {} THEN MarkedFiles(s, M, Cardinality(M))
             ELSE IF Len(parts) >= 2
             THEN Obj(<<"handler.lua", "schema.lua">>,
                      <<TextV(Strip(parts[1])), TextV(Strip(parts[2]))>>)
             ELSE Obj(<<"handler.lua">>, <<TextV(Strip(s))>>)

(***************************************************************************)
(* Exceptions and tracebacks                                               *)
(***************************************************************************)
\* a frame of a traceback: file, line, function
Frame(file, line, fn) == JV("frame", line, file, <<fn>>, <<>>)
\* an exception with message msg raised with the given frames below the caller
Exc(msg, frames) == JV("exc", 0, msg, <<>>, frames)
IsExc(v) == v.t = "exc"
\* the exception seen one call further up
Via(frame, e) == [e EXCEPT !.items = <<frame>> \o @]

(***************************************************************************)
(* Prompt rendering: format_messages (utils.py) and _safe_format_messages  *)
(* (plugin_builder.py).  A template content is a sequence of characters.   *)
(***************************************************************************)
\* a rendered or raw string, as its characters
Chars(cs) == JV("chars", 0, "", <<>>, cs)
\* a chat message
Message(role, content) == [role |-> role, content |-> content]

\* the position of the "}" that closes the replacement field whose body
\* starts at j, 0 when the string ends first; cnt counts the open braces
RECURSIVE FieldEnd(_, _, _)
FieldEnd(s, j, cnt) ==
    IF j > Len(s) THEN 0
    ELSE IF s[j] = "{" THEN FieldEnd(s, j + 1, cnt + 1)
    ELSE IF s[j] = "}" THEN (IF cnt = 1 THEN j ELSE FieldEnd(s, j + 1, cnt - 1))
    ELSE FieldEnd(s, j + 1, cnt)

\* _SafeDict.__missing__
SafeDict_missing(key) == <<"{">> \o key \o <<"}">>

\* the formatted text with `piece` in front, or the exception formatting the
\* rest raised
Prepend(piece, rest) == IF IsExc(rest) THEN rest ELSE Chars(piece \o rest.items)

\* the value of a replacement field: the keyword argument of that name; an
\* empty name is positional; a missing name raises KeyError under
\* str.format(**kw), and is looked up with __missing__ under
\* str.format_map(_SafeDict(**kw))
FieldValue(field, kw, safe) ==
    IF \E k \in DOMAIN field : field[k] = "{"
    THEN Exc("ValueError: unexpected '{' in field name", <<>>)
    ELSE IF field = <<>>
    THEN (IF safe THEN Exc("ValueError: Format string contains positional fields", <<>>)
          ELSE Exc("IndexError: Replacement index 0 out of range", <<>>))
    ELSE IF field \in DOMAIN kw THEN Chars(kw[field])
    ELSE IF safe THEN Chars(SafeDict_missing(field))
    ELSE Exc("KeyError", <<>>)

\* the field ending at j, then the rest of the string
RECURSIVE Formatted(_, _, _, _)
FormatField(s, i, j, kw, safe, v) ==
    IF IsExc(v) THEN v ELSE Prepend(v.items, Formatted(s, j + 1, kw, safe))

\* str.format on s from position i: "{{" and "}}" are literal braces, "{"
\* opens a replacement field, a single "}" is an error
Formatted(s, i, kw, safe) ==
    IF i > Len(s) THEN Chars(<<>>)
    ELSE IF s[i] = "{"
    THEN IF i = Len(s) THEN Exc("ValueError: Single '{' encountered in format string", <<>>)
         ELSE IF s[i + 1] = "{" THEN Prepend(<<"{">>, Formatted(s, i + 2, kw, safe))
         ELSE IF FieldEnd(s, i + 1, 1) = 0
         THEN Exc("ValueError: expected '}' before end of string", <<>>)
         ELSE FormatField(s, i, FieldEnd(s, i + 1, 1), kw, safe,
                          FieldValue(SubSeq(s, i + 1, FieldEnd(s, i + 1, 1) - 1), kw, safe))
    ELSE IF s[i] = "}"
    THEN IF i < Len(s) /\ s[i + 1] = "}" THEN Prepend(<<"}">>, Formatted(s, i + 2, kw, safe))
         ELSE Exc("ValueError: Single '}' encountered in format string", <<>>)
    ELSE Prepend(<<s[i]>>, Formatted(s, i + 1, kw, safe))

\* content.format(**kwargs)
str_format(content, kw) == Formatted(content, 1, kw, FALSE)
\* content.format_map(_SafeDict(**kwargs))
str_format_map(content, kw) == Formatted(content, 1, kw, TRUE)

\* the messages of the loop of format_messages, once no content raised
FormattedMessages(template_msgs, kw) ==
    Arr([k \in DOMAIN template_msgs |->
            Message(template_msgs[k].role, str_format(template_msgs[k].content, kw).items)])

\* format_messages: the first content that raises ends the call
format_messages(template_msgs, kw) ==
    LET bad == {k \in DOMAIN template_msgs : IsExc(str_format(template_msgs[k].content, kw))}
    IN  IF bad # {}
        THEN Via(Frame("services/utils.py", 29, "format_messages"),
                 str_format(template_msgs[SetMin(bad)].content, kw))
        ELSE FormattedMessages(template_msgs, kw)

\* try: content = content.format_map(...) / except Exception: pass
FormatOrKeep(content, formatted) == IF IsExc(formatted) THEN content ELSE formatted.items

\* _safe_format_messages
safe_format_messages(template_msgs, kw) ==
    Arr([k \in DOMAIN template_msgs |->
            Message(template_msgs[k].role,
                    FormatOrKeep(template_msgs[k].content,
                                 str_format_map(template_msgs[k].content, kw)))])

\* the renderer each stage formats its prompt with
StageRenderer ==
    [analyze |-> "format_messages", generate |-> "format_messages",
     validate |-> "format_messages", coverage |-> "format_messages",
     report |-> "format_messages", tests |-> "format_messages",
     distill |-> "_safe_format_messages", genfiles |-> "_safe_format_messages"]

(***************************************************************************)
(* LLMClient._normalize_messages (llm_provider.py)                         *)
(***************************************************************************)
\* a key that is absent from a dict, or present with the value None
Absent == "<absent>"
\* m.get("role") or "user"
RoleOrUser(role) == IF role = Absent \/ role = "" THEN "user" ELSE role

\* the entries that the loop appends: those whose content is not None
RECURSIVE KeptMessages(_, _)
KeptMessages(entries, n) ==
    IF n = 0 THEN <<>>
    ELSE IF entries[n].content = Absent THEN KeptMessages(entries, n - 1)
    ELSE Append(KeptMessages(entries, n - 1),
                Message(RoleOrUser(entries[n].role), entries[n].content))

\* if not out: out = [{"role": "user", "content": "Hello"}]
OrPlaceholder(out) == IF out = <<>> THEN <<Message("user", "Hello")>> ELSE out

normalize_messages(messages) ==
    IF messages.t = "str" THEN Arr(<<Message("user", messages.s)>>)
    ELSE Arr(OrPlaceholder(KeptMessages(messages.items, Len(messages.items))))

(***************************************************************************)
(* LLMClient._invoke_genaihub_gemini (llm_provider.py): the text taken     *)
(* from the native response.  A field of the response is absent, None or   *)
(* present; a candidate and a part are a dict or an object.                *)
(***************************************************************************)
\* str(x)
Repr(x) == JV("repr", 0, "", <<>>, <<x>>)

\* lines 196-201: the parts of the first candidate; a dict candidate is read
\* with .get, an object with getattr
CandidateParts(candidate) ==
    IF candidate.kind = "dict" /\ candidate.content = "none"
    THEN Exc("AttributeError: 'NoneType' object has no attribute 'get'",
             <<Frame("services/llm_provider.py", 197, "_invoke_genaihub_gemini")>>)
    ELSE IF candidate.content = "present" /\ candidate.parts_state = "present"
    THEN Arr(candidate.parts)
    ELSE Arr(<<>>)

\* lines 204-209: the text of a part
PartText(part) ==
    IF part.kind = "dict"
    THEN (IF part.text = Absent THEN Repr(part) ELSE Str(part.text))
    ELSE IF part.text # Absent THEN Str(part.text)
    ELSE Exc("TypeError: object is not subscriptable",
             <<Frame("services/llm_provider.py", 209, "_invoke_genaihub_gemini")>>)

\* lines 203-210, given the parts of the first candidate
FirstPartOr(parts, resp) ==
    IF IsExc(parts) THEN parts
    ELSE IF Len(parts.items) > 0 THEN PartText(parts.items[1])
    ELSE Repr(resp)

\* lines 188-210
gemini_response_text(resp) ==
    IF resp.output_text \notin {Absent, ""} THEN Str(resp.output_text)
    ELSE IF resp.candidates_state = "present" /\ Len(resp.candidates) > 0
    THEN FirstPartOr(CandidateParts(resp.candidates[1]), resp)
    ELSE Repr(resp)

(***************************************************************************)
(* BundleExtractor.extract (apigee_analyzer.py).  An archive opens as a    *)
(* zip or does not; an entry is a directory or a file whose read gives     *)
(* bytes or raises.  Bytes are `chars` decodable characters and `bad`      *)
(* undecodable bytes; a text is its number of characters.                  *)
(***************************************************************************)
TEXT_EXTS ==
    {".xml", ".json", ".properties", ".yml", ".yaml", ".txt", ".md", ".js", ".py",
     ".java", ".ts"}
CODE_EXTS == {".js", ".py", ".java", ".ts"}
MAX_XML_LEN == 2000 * 50
MAX_CODE_LEN == 1500 * 50
MAX_CFG_LEN == 1500 * 30

\* the extension of name.lower()
LowerExt(name) ==
    CASE name \in {"a.xml", "B.XML"} -> ".xml"
      [] name = "s.js" -> ".js"
      [] name = "c.json" -> ".json"
      [] name = "img.png" -> ".png"
      [] name = "t.xsl" -> ".xsl"
      [] OTHER -> ""

Text(n) == [len |-> n]
\* raw.decode('utf-8', errors='ignore'): the undecodable bytes are dropped
Decode(raw) == Text(raw.chars)
\* _safe_read: '' when the read raises
safe_read(entry) == IF entry.read = "error" THEN Text(0) ELSE Decode(entry.raw)
\* _trim
trim(text, max_len) == IF text.len = 0 THEN Text(0) ELSE Text(SetMin({text.len, max_len}))

\* files[name] = text
PutFile(files, name, text) ==
    [n \in DOMAIN files \cup {name} |-> IF n = name THEN text ELSE files[n]]

\* lines 75-80: the text goes to the map of its extension
Store(out, name, text) ==
    IF LowerExt(name) = ".xml"
    THEN [out EXCEPT !.xml_files = PutFile(@, name, trim(text, MAX_XML_LEN))]
    ELSE IF LowerExt(name) \in CODE_EXTS
    THEN [out EXCEPT !.code_files = PutFile(@, name, trim(text, MAX_CODE_LEN))]
    ELSE [out EXCEPT !.config_files = PutFile(@, name, trim(text, MAX_CFG_LEN))]

\* lines 66-80: one pass of the loop
Visit(out, entry) ==
    IF entry.dir THEN out
    ELSE IF LowerExt(entry.name) \notin TEXT_EXTS THEN out
    ELSE IF safe_read(entry).len = 0 THEN out
    ELSE Store(out, entry.name, safe_read(entry))

\* the loop that stops at the first entry whose read raises
RECURSIVE VisitUntilError(_, _)
VisitUntilError(entries, out) ==
    IF entries = <<>> THEN out
    ELSE IF ~Head(entries).dir /\ Head(entries).read = "error" THEN out
    ELSE VisitUntilError(Tail(entries), Visit(out, Head(entries)))

\* lines 65-80: the loop over z.infolist()
RECURSIVE VisitAll(_, _)
VisitAll(entries, out) ==
    IF entries = <<>> THEN out
    ELSE VisitAll(Tail(entries), Visit(out, Head(entries)))

\* lines 57-62
EmptyBundle(archive) ==
    [proxy_name |-> archive.stem, xml_files |-> <<>>, code_files |-> <<>>,
     config_files |-> <<>>]

\* lines 54-85: zipfile.ZipFile raises on a missing file and on a file that
\* is not a zip
extract(archive) ==
    IF ~archive.opens THEN EmptyBundle(archive)
    ELSE VisitAll(archive.entries, EmptyBundle(archive))

(***************************************************************************)
(* The generation backend: LLMClient.invoke returns a text or raises       *)
(***************************************************************************)
\* the adapter's invoke raising (backend unreachable, unsupported provider)
TransportError ==
    Exc("Unsupported LLM provider", <<Frame("services/llm_provider.py", 119, "invoke")>>)
Returned(tokens) == TextV(tokens)

(***************************************************************************)
(* strip_code_fences and yaml.safe_load (server.py)                        *)
(***************************************************************************)
\* re.sub(r"^\s*```(?:yaml|yml)?\s*\n?", "", stripped): a leading fence line
\* goes, and of a fence tagged otherwise only the backticks go
StripLeadingFence(lines) ==
    IF Len(lines) > 0 /\ lines[1].t = "fence"
    THEN IF lines[1].s \in {"", "yaml", "yml"} THEN Tail(lines)
         ELSE <<Line(lines[1].s)>> \o Tail(lines)
    ELSE lines
\* re.sub(r"\n?```\s*$", "", stripped): a closing fence line goes
StripTrailingFence(lines) ==
    IF Len(lines) > 0 /\ lines[Len(lines)] = Fence("")
    THEN SubSeq(lines, 1, Len(lines) - 1)
    ELSE lines
strip_code_fences_raw(text) == text
strip_code_fences(text) ==
    IF Len(text.items) = 0 THEN text
    ELSE TextV(StripTrailingFence(StripLeadingFence(Strip(text.items))))

\* a line the YAML scanner rejects: a backtick cannot start a token, a flow
\* sequence must be closed
YamlRejects(line) == line.t # "line" \/ line.s \in {"plugins: [unclosed"}
\* yaml.safe_load(text): None for the empty document
yaml_safe_load(text) ==
    IF \E i \in DOMAIN text.items : YamlRejects(text.items[i])
    THEN Exc("yaml.scanner.ScannerError", <<Frame("yaml/__init__.py", 125, "safe_load")>>)
    ELSE IF Strip(text.items) = <<>> THEN Null
    ELSE JV("yaml", 0, "", <<>>, Strip(text.items))

(***************************************************************************)
(* ApigeeAnalyzer.analyze, KongConfigGenerator.generate                    *)
(* Each stage function takes the outcome of its one backend call.          *)
(***************************************************************************)
analyze(bdl, out) ==
    IF IsExc(out) THEN Via(Frame("services/apigee_analyzer.py", 109, "analyze"), out)
    ELSE out

generate(analysis_text, out) ==
    IF IsExc(out) THEN Via(Frame("services/kong_generator.py", 20, "generate"), out)
    ELSE out

(***************************************************************************)
(* PluginBuilder (plugin_builder.py)                                       *)
(***************************************************************************)
\* a script file of the bundle: its directory, stem and extension
FileName(dir, stem, ext) == [dir |-> dir, stem |-> stem, ext |-> ext]
\* f"custom_{Path(filename).stem}"
CustomName(filename) == Str("custom_" \o filename.stem)

REQUIRED_KEYS == <<"plugin_name", "summary", "entry_points", "config">>
RequiredDefault(k) ==
    IF k = "config" THEN EmptyObj
    ELSE IF k = "summary" THEN Str("unknown")
    ELSE Arr(<<>>)

RECURSIVE AddRequired(_, _)
AddRequired(sp, i) ==
    IF i = 0 THEN sp
    ELSE SetDefault(AddRequired(sp, i - 1), REQUIRED_KEYS[i], RequiredDefault(REQUIRED_KEYS[i]))

ensure_spec(sp, filename) ==
    LET s == AddRequired(sp, Len(REQUIRED_KEYS))
    IN  IF ~Truthy(Get(s, "plugin_name", Null))
        THEN SetItem(s, "plugin_name", CustomName(filename))
        ELSE s

\* the fallback SPEC literal of distill_spec
FallbackSpec(filename, summary) ==
    Obj(<<"plugin_name", "summary", "entry_points", "io", "flows", "errors",
          "config", "logging", "dependencies", "compat_notes">>,
        <<CustomName(filename), Str(summary), Arr(<<Str("access"), Str("response")>>),
          Obj(<<"request", "response">>, <<EmptyObj, EmptyObj>>), Arr(<<>>), Arr(<<>>),
          EmptyObj, Obj(<<"level">>, <<Str("info")>>), Arr(<<>>), Arr(<<>>)>>)

distill_spec(filename, out) ==
    IF IsExc(out)
    THEN ensure_spec(FallbackSpec(filename, "LLM invocation failed"), filename)
    ELSE LET parsed == safe_json_loads(out.items)
         IN  IF ~Truthy(parsed) \/ ~IsDict(parsed)
             THEN ensure_spec(FallbackSpec(filename, "Behavior extracted from Apigee callout"), filename)
             ELSE ensure_spec(parsed, filename)

\* the type name _schema_from_spec gives a config value
SchemaType(v) ==
    IF v.t = "bool" THEN "boolean" ELSE IF v.t = "num" THEN "number" ELSE "string"

schema_from_spec(sp) ==
    LET cfg == IF Truthy(Get(sp, "config", Null)) THEN Get(sp, "config", Null) ELSE EmptyObj
        name == Get(sp, "plugin_name", Str("custom-plugin"))
    IN  IF ~IsDict(cfg)
        THEN Exc("AttributeError: no attribute 'items'",
                 <<Frame("services/plugin_builder.py", 107, "_schema_from_spec")>>)
        ELSE IF name.t # "str"
        THEN Exc("TypeError: can only concatenate str",
                 <<Frame("services/plugin_builder.py", 113, "_schema_from_spec")>>)
        ELSE TextV(<<JV("schema", 0, name.s, cfg.keys,
                        [i \in DOMAIN cfg.items |-> Str(SchemaType(cfg.items[i]))])>>)

HandlerPlaceholder ==
    TextV(<<Line("-- handler placeholder"), Line("local kong = kong"),
            Line("local Plugin = { PRIORITY = 1000, VERSION = \"1.0.0\" }"),
            Line("function Plugin:access(conf) kong.log.debug(\"access phase\") end"),
            Line("return Plugin")>>)
\* f'# {spec.get("plugin_name","Custom Plugin")}\n\nGenerated from Apigee callout.'
ReadmePlaceholder(sp) ==
    TextV(<<JV("heading", 0, "", <<>>, <<Get(sp, "plugin_name", Str("Custom Plugin"))>>),
            Line(""), Line("Generated from Apigee callout.")>>)

generate_files(sp, out) ==
    LET text == IF IsExc(out) THEN <<>> ELSE out.items
        files == split_sections(text)
        f1 == IF ~Truthy(Get(files, "handler.lua", Null))
              THEN SetItem(files, "handler.lua", HandlerPlaceholder) ELSE files
        needSchema == ~Truthy(Get(f1, "schema.lua", Null))
        f2 == IF needSchema THEN SetItem(f1, "schema.lua", schema_from_spec(sp)) ELSE f1
        f3 == IF ~Truthy(Get(f2, "README.md", Null))
              THEN SetItem(f2, "README.md", ReadmePlaceholder(sp)) ELSE f2
    IN  IF needSchema /\ IsExc(schema_from_spec(sp))
        THEN Via(Frame("services/plugin_builder.py", 237, "generate_files"), schema_from_spec(sp))
        ELSE f3

\* "".join([f"=== FILE: {k} ===\n{v}\n" for k, v in files.items()])
RECURSIVE JoinFiles(_, _)
JoinFiles(files, n) ==
    IF n = 0 THEN <<>>
    ELSE JoinFiles(files, n - 1) \o <<Marker(files.keys[n])>>
         \o (IF files.items[n].items = <<>> THEN <<Line("")>> ELSE files.items[n].items)

\* spec.get('plugin_name') or f"custom_{Path(fname).stem}"
PluginKey(sp, fname) ==
    IF Truthy(Get(sp, "plugin_name", Null)) THEN Get(sp, "plugin_name", Null)
    ELSE CustomName(fname)

Hashable(v) == v.t \notin {"arr", "obj"}

(***************************************************************************)
(* Validator.validate (validation.py)                                      *)
(***************************************************************************)
ValidatorFallback ==
    Obj(<<"is_valid", "errors", "warnings", "suggestions">>,
        <<Bool(FALSE), Arr(<<Str("Validator returned non-JSON")>>), Arr(<<>>), Arr(<<>>)>>)

validate(analysis_text, kong_yaml_text, out) ==
    IF IsExc(out) THEN Via(Frame("services/validation.py", 18, "validate"), out)
    ELSE IF json_loads(out.items) # JSONDecodeError THEN json_loads(out.items)
    ELSE ValidatorFallback

(***************************************************************************)
(* Coverage (coverage.py)                                                  *)
(***************************************************************************)
AttributeError(file, line, fn) == Exc("AttributeError: no attribute 'get'", <<Frame(file, line, fn)>>)
TypeError(file, line, fn) == Exc("TypeError", <<Frame(file, line, fn)>>)

\* for x in v: what iterating a value yields, or the TypeError of a value
\* that is not iterable (a dict yields its keys, strings)
Iterable(v) == v.t \in {"arr", "obj", "str"}
IterItems(v) ==
    IF v.t = "arr" THEN v.items
    ELSE IF v.t = "obj" THEN [i \in DOMAIN v.keys |-> Str(v.keys[i])]
    ELSE IF v.s = "" THEN <<>> ELSE <<Str(v.s)>>

\* Coverage._extract_policies: the named policies of the analysis, or the
\* exception of reading a value that is not the expected mapping
extract_policies(analysis_json) ==
    IF ~IsDict(analysis_json)
    THEN AttributeError("services/coverage.py", 33, "_extract_policies")
    ELSE LET pa == Get(analysis_json, "policies_analysis", Null)
             ps == IF Truthy(pa) THEN pa ELSE Arr(<<>>)
             elems == IterItems(ps)
             named == {i \in DOMAIN elems :
                          Truthy(Get(elems[i], "policy_name", Null))}
         IN  IF ~Iterable(ps)
             THEN TypeError("services/coverage.py", 33, "_extract_policies")
             ELSE IF \E i \in DOMAIN elems : ~IsDict(elems[i])
             THEN AttributeError("services/coverage.py", 34, "_extract_policies")
             ELSE Arr([k \in 1..Cardinality(named) |->
                        Obj(<<"name", "type">>,
                            <<Get(elems[Nth(named, k)], "policy_name", Null),
                              IF Truthy(Get(elems[Nth(named, k)], "policy_type", Null))
                              THEN Get(elems[Nth(named, k)], "policy_type", Null)
                              ELSE Str("")>>)])

IsNumber(v) == v.t \in {"num", "bool"}

\* round(100 * (a / b)) for integers a >= 0 and b # 0: to nearest, ties to even
PyRound100(a, b) ==
    LET num == IF b > 0 THEN 100 * a ELSE -(100 * a)
        den == IF b > 0 THEN b ELSE -b
        q == num \div den
        r2 == 2 * (num - q * den)
    IN  IF r2 < den THEN q
        ELSE IF r2 > den THEN q + 1
        ELSE IF q % 2 = 0 THEN q ELSE q + 1

\* the part of Coverage.compute before the backend call
compute_policies(analysis_text) ==
    extract_policies(coverage_safe_json_loads(analysis_text.items))

\* result if isinstance(result, dict) else {}
AsDict(v) == IF IsDict(v) THEN v ELSE EmptyObj
\* v or {}
OrEmpty(v) == IF Truthy(v) THEN v ELSE EmptyObj
\* d[k] = x, where computing x may have raised
SetOrRaise(d, k, x) == IF IsExc(x) THEN x ELSE SetItem(d, k, x)

\* line 80: the mappings that name a kong solution, counted
MappedCount(pm) ==
    IF ~IsList(pm) THEN Num(0)
    ELSE IF \E i \in DOMAIN pm.items : ~IsDict(pm.items[i])
    THEN AttributeError("services/coverage.py", 80, "compute")
    ELSE Num(Cardinality({i \in DOMAIN pm.items :
                             Truthy(Get(pm.items[i], "kong_solution", Null))}))

\* line 81: round(100 * (mapped / total)) if total else 0
Percentage(mapped, total) ==
    IF IsExc(mapped) THEN mapped
    ELSE IF ~Truthy(total) THEN Num(0)
    ELSE IF ~IsNumber(total) THEN TypeError("services/coverage.py", 81, "compute")
    ELSE Num(PyRound100(mapped.n, total.n))

\* lines 79-81: coverage_percentage computed when missing or not a number
WithPercentage(r) ==
    IF HasKey(r, "coverage_percentage") /\ IsNumber(Get(r, "coverage_percentage", Null))
    THEN r
    ELSE SetOrRaise(r, "coverage_percentage",
                    Percentage(MappedCount(Get(r, "policy_mappings", Arr(<<>>))),
                               Get(r, "total_policies", Null)))

\* lines 85-87
BundlingDefaults(ba) ==
    IF ~IsDict(ba)
    THEN Exc("AttributeError: no attribute 'setdefault'",
             <<Frame("services/coverage.py", 85, "compute")>>)
    ELSE SetDefault(SetDefault(SetDefault(ba, "total_bundles", Num(0)),
                               "bundled_policies_count", Num(0)),
                    "efficiency_gain", Str("0%"))

\* lines 84-88
WithBundling(r) ==
    IF IsExc(r) THEN r
    ELSE SetOrRaise(r, "bundling_analysis",
                    BundlingDefaults(OrEmpty(Get(r, "bundling_analysis", Null))))

\* lines 91-93, for one key
EnsureList(r, k) ==
    IF IsExc(r) THEN r
    ELSE IF IsList(Get(r, k, Null)) THEN r
    ELSE SetItem(r, k, Arr(<<>>))

\* the part of Coverage.compute after the backend call; policy_count is
\* len(policies)
compute_result(policy_count, out) ==
    EnsureList(
        EnsureList(
            WithBundling(
                WithPercentage(
                    SetDefault(AsDict(coverage_safe_json_loads(out.items)),
                               "total_policies", Num(policy_count)))),
            "policy_mappings"),
        "not_required_policies")

\* Coverage.compute around its backend call, given the extracted policies
compute_with(policies, out) ==
    IF IsExc(policies) THEN Via(Frame("services/coverage.py", 48, "compute"), policies)
    ELSE IF IsExc(out) THEN Via(Frame("services/coverage.py", 70, "compute"), out)
    ELSE compute_result(Len(policies.items), out)

compute(analysis_text, kong_yaml_text, out) ==
    compute_with(compute_policies(analysis_text), out)

\* the stats dict api_generate builds from the coverage report
Stats(report) ==
    LET pm == Get(report, "policy_mappings", Arr(<<>>))
        count(field) == Cardinality({i \in DOMAIN pm.items :
                            Truthy(Get(pm.items[i], field, Null))})
        ba == Get(report, "bundling_analysis", EmptyObj)
    IN  IF \E i \in DOMAIN pm.items : ~IsDict(pm.items[i])
        THEN AttributeError("server.py", 296, "<listcomp>")
        ELSE Obj(<<"total", "auto", "bundled", "custom", "efficiency", "coverage_pct">>,
                 <<Get(report, "total_policies", Num(0)), Num(count("auto_generated")),
                   Get(ba, "bundled_policies_count", Num(0)),
                   Num(count("requires_custom_plugin")),
                   Get(ba, "efficiency_gain", Num(0)),
                   Get(report, "coverage_percentage", Num(0))>>)

(***************************************************************************)
(* Report.build, TestScripts.build                                         *)
(***************************************************************************)
report_build(analysis_text, st, out) ==
    IF IsExc(out) THEN Via(Frame("services/report.py", 30, "build"), out)
    ELSE out

tests_build(analysis_text, kong_yaml_text, out) ==
    IF IsExc(out) THEN Via(Frame("services/test_scripts.py", 16, "build"), out)
    ELSE out

(***************************************************************************)
(* LLMClient.from_env_or_file and the process-wide objects of server.py    *)
(***************************************************************************)
Unset == "<unset>"
Providers == {"genaihub_langchain", "azure_openai"}
Models == {"anthropic--claude-4.5-sonnet", "anthropic--claude-4-sonnet", "gpt-4.1"}

\* os.getenv(name, default)
GetEnv(env, name, default) == IF env[name] = Unset THEN default ELSE env[name]
\* d.get(key, default) on a settings section
GetSetting(settings, key, default) == IF settings[key] = Unset THEN default ELSE settings[key]

\* the adapter built from the environment and the settings file; id tells
\* one constructed object from another
\* numbers are held as their decimal text; int() and float() of a text
IsIntText(v) == v \in {"1000", "2000", "4000", "8000"}
IsFloatText(v) == v \in {"0.0", "0.2", "0.7", "1", "1.0"}
ToFloat(v) == IF v = "1" THEN "1.0" ELSE v
\* lines 86-89: int(os.getenv(...)), the settings value when int() raises
ResolveMaxTokens(settings, env) ==
    IF IsIntText(GetEnv(env, "MAX_TOKENS", GetSetting(settings, "max_tokens", "8000")))
    THEN GetEnv(env, "MAX_TOKENS", GetSetting(settings, "max_tokens", "8000"))
    ELSE GetSetting(settings, "max_tokens", "8000")
\* lines 90-93
ResolveTemperature(settings, env) ==
    IF IsFloatText(GetEnv(env, "TEMPERATURE", GetSetting(settings, "temperature", "0.2")))
    THEN ToFloat(GetEnv(env, "TEMPERATURE", GetSetting(settings, "temperature", "0.2")))
    ELSE GetSetting(settings, "temperature", "0.2")

from_env_or_file(settings, env, id) ==
    [id |-> id,
     provider |-> GetEnv(env, "LLM_PROVIDER", GetSetting(settings, "provider", "genaihub_langchain")),
     model |-> GetEnv(env, "LLM_MODEL", GetSetting(settings, "model", "anthropic--claude-4.5-sonnet")),
     max_tokens |-> ResolveMaxTokens(settings, env),
     temperature |-> ResolveTemperature(settings, env)]

ServiceNames ==
    {"analyzer", "kong_gen", "plugin_builder", "validator", "coverage",
     "step_gen", "reporter", "qa"}
\* the order in which set_config rebinds the globals after LLM
RebuildOrder ==
    <<"analyzer", "kong_gen", "plugin_builder", "validator", "coverage",
      "step_gen", "reporter", "qa">>

\* the JSON bodies of a set_config request
NoOverrides ==
    [has_llm |-> FALSE, provider |-> Unset, model |-> Unset, max_tokens |-> Unset,
     temperature |-> Unset]
ConfigRequests ==
    {NoOverrides,
     [NoOverrides EXCEPT !.has_llm = TRUE, !.provider = "azure_openai"],
     [NoOverrides EXCEPT !.has_llm = TRUE, !.provider = "azure_openai", !.model = "gpt-4.1"]}

\* lines 177-180 of set_config: the environment after the overrides
ApplyOverrides(env, data) ==
    IF data.has_llm
    THEN [env EXCEPT
            !["LLM_PROVIDER"] = IF data.provider # Unset THEN data.provider
                                ELSE GetEnv(env, "LLM_PROVIDER", "genaihub_langchain"),
            !["LLM_MODEL"] = IF data.model # Unset THEN data.model
                             ELSE GetEnv(env, "LLM_MODEL", "anthropic--claude-4-sonnet"),
            !["MAX_TOKENS"] = IF data.max_tokens # Unset THEN data.max_tokens
                              ELSE GetEnv(env, "MAX_TOKENS", "8000"),
            !["TEMPERATURE"] = IF data.temperature # Unset THEN data.temperature
                               ELSE GetEnv(env, "TEMPERATURE", "0.2")]
    ELSE env

(***************************************************************************)
(* The state before any request: module initialisation of server.py        *)
(***************************************************************************)
NoResult == [status |-> 0, body |-> <<>>]

\* no temp file yet; `unlink` is what os.unlink does to the file while the
\* handle of NamedTemporaryFile is still open: it removes it, or it raises
\* (a platform that forbids deleting an open file)
NoTempFile == [file |-> "absent", read |-> FALSE, unlink |-> "ok"]

IdleRun ==
    /\ pc = "idle"
    /\ upload = FALSE
    /\ tmp_path = Null
    /\ disk = NoTempFile
    /\ bundle = [code_files |-> <<>>]
    /\ analysis = Null
    /\ kong_yaml = Null
    /\ todo = 0
    /\ spec = Null
    /\ plugins_out = EmptyObj
    /\ val = Null
    /\ cov = Null
    /\ stats = Null
    /\ rpt = Null
    /\ tests = Null
    /\ result = NoResult
    /\ calls = <<>>
    /\ produced = <<>>

IdleConfig ==
    /\ cpc = "idle"
    /\ cdata = NoOverrides
    /\ creqs = 0

\* lines 110-122: one adapter, shared by every stage object
Globals(envs, settings) ==
    /\ environ \in envs
    /\ SETTINGS \in settings
    /\ LLM = from_env_or_file(SETTINGS, environ, 0)
    /\ services = [n \in ServiceNames |-> LLM]
    /\ created = 1

DefaultEnv ==
    [LLM_PROVIDER |-> Unset, LLM_MODEL |-> Unset, MAX_TOKENS |-> Unset, TEMPERATURE |-> Unset,
     AZURE_OPENAI_DEPLOYMENT |-> Unset]
DefaultSettings ==
    [provider |-> Unset, model |-> Unset, max_tokens |-> Unset, temperature |-> Unset]

IdleServer ==
    /\ Globals({DefaultEnv}, {DefaultSettings})
    /\ IdleConfig
    /\ IdleRun

(***************************************************************************)
(* set_config (server.py 169-193), one step per statement that another     *)
(* request thread can observe                                              *)
(***************************************************************************)
\* lines 176-182: read the request, write the environment
ConfigBegin(requests) ==
    /\ cpc = "idle"
    /\ creqs < MaxReconfig
    /\ \E data \in requests :
          /\ cdata' = data
          /\ environ' = ApplyOverrides(environ, data)
    /\ creqs' = creqs + 1
    /\ cpc' = "LLM"
    /\ UNCHANGED <<SETTINGS, LLM, services, created, rvars, jvars, svars, fvars>>

\* line 184: LLM = LLMClient.from_env_or_file(SETTINGS)
ConfigNewAdapter ==
    /\ cpc = "LLM"
    /\ LLM' = from_env_or_file(SETTINGS, environ, created)
    /\ created' = created + 1
    /\ cpc' = RebuildOrder[1]
    /\ UNCHANGED <<environ, SETTINGS, services, cdata, creqs, rvars, jvars, svars, fvars>>

\* the global rebound after `name`, or the return of the handler
AfterRebuild(name) ==
    LET i == CHOOSE k \in DOMAIN RebuildOrder : RebuildOrder[k] = name
    IN  IF i < Len(RebuildOrder) THEN RebuildOrder[i + 1] ELSE "idle"

\* lines 185-192: one stage object rebuilt around the current LLM
ConfigRebuild ==
    /\ cpc \in ServiceNames
    /\ services' = [services EXCEPT ![cpc] = LLM]
    /\ cpc' = AfterRebuild(cpc)
    /\ UNCHANGED <<environ, SETTINGS, LLM, created, cdata, creqs, rvars, jvars, svars, fvars>>

\* set_config run from its first statement to its return, with no other
\* request served meanwhile
SetConfig(requests) ==
    /\ cpc = "idle"
    /\ creqs < MaxReconfig
    /\ \E data \in requests :
          /\ cdata' = data
          /\ environ' = ApplyOverrides(environ, data)
    /\ LLM' = from_env_or_file(SETTINGS, environ', created)
    /\ services' = [n \in ServiceNames |-> LLM']
    /\ created' = created + 1
    /\ creqs' = creqs + 1
    /\ cpc' = "idle"
    /\ UNCHANGED <<SETTINGS, rvars, jvars, svars, fvars>>

(***************************************************************************)
(* LLMClient.invoke (llm_provider.py 99-119) and the provider methods:     *)
(* what a call hands to the backend client                                 *)
(***************************************************************************)
NotSent == "<not sent>"
Request(provider, model, max_tokens, temperature) ==
    [provider |-> provider, model |-> model, max_tokens |-> max_tokens,
     temperature |-> temperature]
\* line 220: os.getenv("AZURE_OPENAI_DEPLOYMENT") or self.cfg.model
AzureDeployment(cfg, env) ==
    IF env["AZURE_OPENAI_DEPLOYMENT"] \notin {Unset, ""}
    THEN env["AZURE_OPENAI_DEPLOYMENT"]
    ELSE cfg.model
\* the client each provider method builds; the Gemini client is given the
\* model name only; AZURE_OPENAI_API_KEY and AZURE_OPENAI_ENDPOINT are set
Sends(cfg, env) ==
    CASE cfg.provider \in {"genaihub_langchain", "genaihub_openai"} ->
             Request(cfg.provider, cfg.model, cfg.max_tokens, cfg.temperature)
      [] cfg.provider = "genaihub_gemini" ->
             Request(cfg.provider, cfg.model, NotSent, NotSent)
      [] cfg.provider = "azure_openai" ->
             Request(cfg.provider, AzureDeployment(cfg, env), cfg.max_tokens, cfg.temperature)
      [] OTHER -> Request("RuntimeError: Unsupported LLM provider", NotSent, NotSent, NotSent)

\* a stage object calls self.llm.invoke
Invoke ==
    /\ \E n \in ServiceNames :
          /\ farg' = services[n]
          /\ fret' = Sends(services[n], environ)
    /\ callee' = "invoke"
    /\ fpc' = "out"
    /\ UNCHANGED <<gvars, cvars, rvars, jvars, svars>>

(***************************************************************************)
(* api_generate (server.py 233-323), one step per stage call               *)
(***************************************************************************)
Call(stage, adapter, file, analysis_in, kong_in, ret) ==
    [stage |-> stage, adapter |-> adapter, file |-> file,
     analysis |-> analysis_in, kong |-> kong_in, ret |-> ret]

\* the response of line 319 for an exception caught at line 317
ErrorBodyNoTrace(e) == [error |-> e.s, traceback |-> <<>>]
ErrorBody(e) == [error |-> e.s, traceback |-> e.items]
\* the response of lines 308-316
PackageBody(kong_config) ==
    [kong_config |-> kong_config, custom_plugins |-> plugins_out, coverage |-> cov,
     manual_steps |-> Arr(<<>>), validation |-> val, migration_report |-> rpt,
     test_scripts |-> tests]

\* lines 320-323: the finally clause, skipped while tmp_path is None; an
\* exception of os.unlink is swallowed
Unlink(d, path) ==
    IF path = Null THEN d
    ELSE IF d.unlink = "ok" THEN [d EXCEPT !.file = "deleted"]
    ELSE d

\* an exception raised under the statement at `line` of api_generate
Abort(e, line) ==
    /\ result' = [status |-> 500,
                  body |-> ErrorBody(Via(Frame("server.py", line, "api_generate"), e))]
    /\ pc' = "done"
    /\ disk' = Unlink(disk, tmp_path)

\* the script files an uploaded bundle can hold, in archive order
ScriptFiles ==
    {FileName("", "a", ".js"), FileName("", "b", ".py"), FileName("lib/", "a", ".js")}
Bundles(files) ==
    {[code_files |-> fs] : fs \in {q \in SeqsUpTo(files, MaxFiles) :
                                      \A i, j \in DOMAIN q : i # j => q[i] # q[j]}}

\* the statement after the generate stage: the loop over code_files, or
\* validation when there is none (left)
\* a loop that is left after the first script file
AfterFileFirstOnly(b, done) == IF done < 1 /\ done < Len(b.code_files) THEN "distill" ELSE "validate"
AfterFile(b, done) == IF done < Len(b.code_files) THEN "distill" ELSE "validate"

\* what can happen to an upload: up.save writes the file or raises, the
\* extractor opens the archive or raises, os.unlink removes the file or raises
Upload(save, extracted, unlink) == [save |-> save, extract |-> extracted, unlink |-> unlink]
SoundUploads == {Upload("ok", "ok", "ok")}
AnyUploads == {Upload(a, b, c) : a \in {"ok", "raises"}, b \in {"ok", "raises"},
                                  c \in {"ok", "raises"}}
TempPath == Str("/tmp/tmpab12.zip")

\* lines 239-251: the temp file is created, the upload saved to it, its path
\* kept in tmp_path, and the archive extracted
Receive(bundles, uploads) ==
    /\ pc = "idle"
    /\ \E up \in BOOLEAN :
          /\ upload' = up
          /\ IF ~up
             THEN /\ result' = [status |-> 400, body |-> [error |-> "No file provided"]]
                  /\ pc' = "done"
                  /\ UNCHANGED <<bundle, tmp_path, disk>>
             ELSE \E u \in uploads :
                  LET made == [file |-> "created", read |-> FALSE, unlink |-> u.unlink]
                      saved == [made EXCEPT !.file = "saved"]
                      opened == [saved EXCEPT !.read = TRUE]
                  IN  IF u.save = "raises"
                      THEN /\ result' = [status |-> 500,
                                         body |-> ErrorBody(Via(Frame("server.py", 245, "api_generate"),
                                                                Exc("OSError", <<>>)))]
                           /\ pc' = "done"
                           /\ disk' = Unlink(made, tmp_path)
                           /\ UNCHANGED <<bundle, tmp_path>>
                      ELSE IF u.extract = "raises"
                      THEN /\ result' = [status |-> 500,
                                         body |-> ErrorBody(Via(Frame("server.py", 249, "api_generate"),
                                                                Exc("BadZipFile", <<>>)))]
                           /\ pc' = "done"
                           /\ tmp_path' = TempPath
                           /\ disk' = Unlink(opened, TempPath)
                           /\ UNCHANGED bundle
                      ELSE /\ \E b \in bundles : bundle' = b
                           /\ pc' = "analyze"
                           /\ tmp_path' = TempPath
                           /\ disk' = opened
                           /\ UNCHANGED result
    /\ UNCHANGED <<analysis, kong_yaml, todo, spec, plugins_out, val, cov, stats,
                   rpt, tests, calls, produced, gvars, cvars, jvars, svars, fvars>>

\* line 256
Analyze(outs) ==
    /\ pc = "analyze"
    /\ \E out \in outs :
          LET r == analyze(bundle, out)
          IN  /\ calls' = Append(calls, Call("analyze", services["analyzer"], 0, Null, Null, out))
              /\ IF IsExc(r)
                 THEN Abort(r, 256) /\ UNCHANGED analysis
                 ELSE analysis' = r /\ pc' = "generate" /\ UNCHANGED <<result, disk>>
    /\ UNCHANGED <<upload, tmp_path, bundle, kong_yaml, todo, spec, plugins_out, val, cov, stats,
                   rpt, tests, produced, gvars, cvars, jvars, svars, fvars>>

\* lines 260-268
Generate(outs) ==
    /\ pc = "generate"
    /\ \E out \in outs :
          LET r == generate(analysis, out)
          IN  /\ calls' = Append(calls, Call("generate", services["kong_gen"], 0, analysis, Null, out))
              /\ IF IsExc(r)
                 THEN Abort(r, 260) /\ UNCHANGED kong_yaml
                 ELSE /\ kong_yaml' = strip_code_fences(r)
                      /\ pc' = AfterFile(bundle, 0)
                      /\ UNCHANGED <<result, disk>>
    /\ UNCHANGED <<upload, tmp_path, bundle, analysis, todo, spec, plugins_out, val, cov, stats,
                   rpt, tests, produced, gvars, cvars, jvars, svars, fvars>>

\* lines 271-275: the next script file, its SPEC distilled
Distill(outs) ==
    /\ pc = "distill"
    /\ \E out \in outs :
          LET fname == bundle.code_files[todo + 1]
              r == distill_spec(fname, out)
          IN  /\ calls' = Append(calls, Call("distill", services["plugin_builder"], todo + 1,
                                             analysis, Null, out))
              /\ IF IsExc(r)
                 THEN Abort(r, 275) /\ UNCHANGED spec
                 ELSE spec' = r /\ pc' = "genfiles" /\ UNCHANGED <<result, disk>>
    /\ UNCHANGED <<upload, tmp_path, bundle, analysis, kong_yaml, todo, plugins_out, val, cov, stats,
                   rpt, tests, produced, gvars, cvars, jvars, svars, fvars>>

\* lines 276-278: its files generated and stored under the plugin's name
GenerateFiles(outs) ==
    /\ pc = "genfiles"
    /\ \E out \in outs :
          LET fname == bundle.code_files[todo + 1]
              files == generate_files(spec, out)
              key == PluginKey(spec, fname)
              content == TextV(JoinFiles(files, Len(files.keys)))
          IN  /\ calls' = Append(calls, Call("genfiles", services["plugin_builder"], todo + 1,
                                             Null, Null, out))
              /\ IF IsExc(files)
                 THEN Abort(files, 276) /\ UNCHANGED <<plugins_out, produced, todo>>
                 ELSE IF ~Hashable(key)
                 THEN /\ Abort(Exc("TypeError: unhashable type", <<>>), 278)
                      /\ UNCHANGED <<plugins_out, produced, todo>>
                 ELSE /\ plugins_out' = SetItem(plugins_out, key, content)
                      /\ produced' = Append(produced,
                                        [file |-> fname, key |-> key, content |-> content])
                      /\ todo' = todo + 1
                      /\ pc' = AfterFile(bundle, todo + 1)
                      /\ UNCHANGED <<result, disk>>
    /\ UNCHANGED <<upload, tmp_path, bundle, analysis, kong_yaml, spec, val, cov, stats,
                   rpt, tests, gvars, cvars, jvars, svars, fvars>>

\* line 285
Validate(outs) ==
    /\ pc = "validate"
    /\ \E out \in outs :
          LET r == validate(analysis, kong_yaml, out)
          IN  /\ calls' = Append(calls, Call("validate", services["validator"], 0,
                                             analysis, kong_yaml, out))
              /\ IF IsExc(r)
                 THEN Abort(r, 285) /\ UNCHANGED val
                 ELSE val' = r /\ pc' = "coverage" /\ UNCHANGED <<result, disk>>
    /\ UNCHANGED <<upload, tmp_path, bundle, analysis, kong_yaml, todo, spec, plugins_out, cov, stats,
                   rpt, tests, produced, gvars, cvars, jvars, svars, fvars>>

\* lines 294-301, then on to the report
StoreStats(r, st) ==
    IF IsExc(st)
    THEN Abort(st, 296) /\ cov' = r /\ UNCHANGED stats
    ELSE cov' = r /\ stats' = st /\ pc' = "report" /\ UNCHANGED <<result, disk>>

\* line 289: what coverage.compute gave
StoreCoverage(r) ==
    IF IsExc(r)
    THEN Abort(r, 289) /\ UNCHANGED <<cov, stats>>
    ELSE StoreStats(r, Stats(r))

\* lines 289-301: the coverage report and the stats read from it; the
\* backend is called once the policies are extracted
ComputeCoverage(outs) ==
    /\ pc = "coverage"
    /\ \E out \in outs :
          /\ calls' = IF IsExc(compute_policies(analysis))
                      THEN calls
                      ELSE Append(calls, Call("coverage", services["coverage"], 0,
                                              analysis, kong_yaml, out))
          /\ StoreCoverage(compute(analysis, kong_yaml, out))
    /\ UNCHANGED <<upload, tmp_path, bundle, analysis, kong_yaml, todo, spec, plugins_out, val,
                   rpt, tests, produced, gvars, cvars, jvars, svars, fvars>>

\* line 304
BuildReport(outs) ==
    /\ pc = "report"
    /\ \E out \in outs :
          LET r == report_build(analysis, stats, out)
          IN  /\ calls' = Append(calls, Call("report", services["reporter"], 0,
                                             analysis, Null, out))
              /\ IF IsExc(r)
                 THEN Abort(r, 304) /\ UNCHANGED rpt
                 ELSE rpt' = r /\ pc' = "tests" /\ UNCHANGED <<result, disk>>
    /\ UNCHANGED <<upload, tmp_path, bundle, analysis, kong_yaml, todo, spec, plugins_out, val, cov,
                   stats, tests, produced, gvars, cvars, jvars, svars, fvars>>

\* line 305
BuildTests(outs) ==
    /\ pc = "tests"
    /\ \E out \in outs :
          LET r == tests_build(analysis, kong_yaml, out)
          IN  /\ calls' = Append(calls, Call("tests", services["qa"], 0,
                                             analysis, kong_yaml, out))
              /\ IF IsExc(r)
                 THEN Abort(r, 305) /\ UNCHANGED tests
                 ELSE tests' = r /\ pc' = "respond" /\ UNCHANGED <<result, disk>>
    /\ UNCHANGED <<upload, tmp_path, bundle, analysis, kong_yaml, todo, spec, plugins_out, val, cov,
                   stats, rpt, produced, gvars, cvars, jvars, svars, fvars>>

\* lines 308-316: the package is assembled and returned
Respond ==
    /\ pc = "respond"
    /\ LET doc == yaml_safe_load(kong_yaml)
       IN  IF IsExc(doc)
           THEN Abort(doc, 309)
           ELSE /\ result' = [status |-> 200, body |-> PackageBody(doc)]
                /\ pc' = "done"
                /\ disk' = Unlink(disk, tmp_path)
    /\ UNCHANGED <<locals, calls, produced, gvars, cvars, jvars, svars, fvars>>

(***************************************************************************)
(* What the backend answers: well-formed and malformed texts per stage     *)
(***************************************************************************)
\* {"policies_analysis": [{"policy_name": "VerifyKey"}]}
AnalysisJson ==
    <<LB, Key("policies_analysis"), LSB, LB, Key("policy_name"), Str("VerifyKey"), RB, RSB, RB>>
AnalysisTexts ==
    {AnalysisJson,             \* the JSON the prompt asks for
     <<Prose>>,                \* prose, no JSON
     <<LSB, RSB>>}             \* a JSON document that is an array

KongTexts ==
    {<<Fence("yaml"), Line("services: []"), Fence("")>>,
     <<Line("Here is the configuration:"), Fence("yaml"), Line("services: []"), Fence("")>>,
     <<>>}

SpecTexts ==
    {<<LB, Key("plugin_name"), Str("auth"), RB>>,
     <<LB, Key("plugin_name"), Str("quota"), Comma, Key("config"), Str("none"), RB>>,
     <<Prose>>}

FilesTexts ==
    {<<Marker("handler.lua"), Line("return H"), Marker("schema.lua"), Line("return S"),
       Marker("README.md"), Line("# doc")>>,
     <<Fence("lua"), Line("return H"), Fence("")>>}

ValidationTexts ==
    {<<LB, Key("is_valid"), Bool(TRUE), RB>>,
     <<Prose>>}

\* {"total_policies": 1, "policy_mappings": [{"kong_solution": "key-auth",
\*  "auto_generated": true}]}
CoverageJson ==
    <<LB, Key("total_policies"), Num(1), Comma, Key("policy_mappings"), LSB,
      LB, Key("kong_solution"), Str("key-auth"), Comma, Key("auto_generated"), Bool(TRUE), RB,
      RSB, RB>>
CoverageTexts ==
    {CoverageJson,
     <<Prose>>,
     <<LB, Key("coverage_percentage"), Num(50), Comma, Key("policy_mappings"),
       LSB, Str("VerifyKey -> key-auth"), RSB, RB>>}

ReportTexts == {<<Line("# Migration report")>>}
TestsTexts == {<<Line("#!/bin/bash")>>}

\* the outcomes of one backend call: one of the texts, or the call raises
Outcomes(texts) == {Returned(t) : t \in texts} \cup {TransportError}
\* the outcomes of a call that answers as prompted
Answered(text) == {Returned(text)}

(***************************************************************************)
(* Specification Spec: one migration run against a backend that answers    *)
(* anything or raises                                                      *)
(***************************************************************************)
Init ==
    /\ IdleServer
    /\ IdleJson
    /\ IdleSections
    /\ IdleCall

Next ==
    \/ Receive(Bundles(ScriptFiles), SoundUploads)
    \/ Analyze(Outcomes(AnalysisTexts))
    \/ Generate(Outcomes(KongTexts))
    \/ Distill(Outcomes(SpecTexts))
    \/ GenerateFiles(Outcomes(FilesTexts))
    \/ Validate(Outcomes(ValidationTexts))
    \/ ComputeCoverage(Outcomes(CoverageTexts))
    \/ BuildReport(Outcomes(ReportTexts))
    \/ BuildTests(Outcomes(TestsTexts))
    \/ Respond

Spec == Init /\ [][Next]_vars

(***************************************************************************)
(* generate_files on its own: the SPECs distill_spec can hand over, and a  *)
(* backend that answers with any of the file texts or raises               *)
(***************************************************************************)
\* {"plugin_name": "auth", "config": {"ttl": 60}}
SpecWithConfig ==
    <<LB, Key("plugin_name"), Str("auth"), Comma, Key("config"),
      LB, Key("ttl"), Num(60), RB, RB>>
DistilledSpecs ==
    {distill_spec(f, o) : f \in ScriptFiles, o \in Outcomes(SpecTexts \cup {SpecWithConfig})}
GeneratedTexts ==
    FilesTexts \cup
    {<<>>,
     <<Line("")>>,
     <<Marker("handler.lua"), Line("return H")>>,
     <<Marker("handler.lua"), Marker("schema.lua"), Line("return S")>>,
     <<Marker("README.md"), Line("# doc")>>,
     <<Line("return H"), Line("schema.lua"), Line("return S")>>}

InitGenFiles ==
    /\ callee = ""
    /\ farg \in {[spec |-> sp, out |-> o] : sp \in DistilledSpecs, o \in Outcomes(GeneratedTexts)}
    /\ fret = Null
    /\ fpc = "in"
    /\ IdleJson
    /\ IdleSections
    /\ IdleServer

GenFiles ==
    /\ fpc = "in"
    /\ callee' = "generate_files"
    /\ fret' = generate_files(farg.spec, farg.out)
    /\ fpc' = "out"
    /\ UNCHANGED <<farg, jvars, svars, gvars, cvars, rvars>>

NextGenFiles == GenFiles

SpecGenFiles == InitGenFiles /\ [][NextGenFiles]_vars

(***************************************************************************)
(* Specification SpecUpload: one migration run whose upload may fail to be *)
(* saved, extracted or deleted, against a backend that answers as prompted *)
(* or raises; the SPEC it distils may carry a config that is no mapping    *)
(***************************************************************************)
Prompted(text) == {Returned(text), TransportError}
\* {"plugin_name": "quota", "config": "none"}
SpecWithTextConfig ==
    <<LB, Key("plugin_name"), Str("quota"), Comma, Key("config"), Str("none"), RB>>

NextUpload ==
    \/ Receive(Bundles(ScriptFiles), AnyUploads)
    \/ Analyze(Prompted(AnalysisJson))
    \/ Generate(Prompted(<<Fence("yaml"), Line("services: []"), Fence("")>>))
    \/ Distill(Prompted(<<LB, Key("plugin_name"), Str("auth"), RB>>)
                 \cup {Returned(SpecWithTextConfig)})
    \/ GenerateFiles(Prompted(<<Fence("lua"), Line("return H"), Fence("")>>))
    \/ Validate(Prompted(<<LB, Key("is_valid"), Bool(TRUE), RB>>))
    \/ ComputeCoverage(Prompted(CoverageJson))
    \/ BuildReport(Prompted(<<Line("# Migration report")>>))
    \/ BuildTests(Prompted(<<Line("#!/bin/bash")>>))
    \/ Respond

SpecUpload == Init /\ [][NextUpload]_vars

(***************************************************************************)
(* Specification SpecConc: one migration run, served while set_config      *)
(* requests are served by another thread; the backend answers as prompted  *)
(***************************************************************************)
InitConc ==
    /\ Globals({DefaultEnv, [DefaultEnv EXCEPT !.LLM_PROVIDER = "genaihub_langchain"]},
               {DefaultSettings,
                [DefaultSettings EXCEPT !.provider = "genaihub_langchain", !.model = "gpt-4.1"]})
    /\ IdleConfig
    /\ IdleRun
    /\ IdleJson
    /\ IdleSections
    /\ IdleCall

NextConc ==
    \/ ConfigBegin(ConfigRequests)
    \/ ConfigNewAdapter
    \/ ConfigRebuild
    \/ Receive(Bundles({FileName("", "a", ".js")}), SoundUploads)
    \/ Analyze(Answered(AnalysisJson))
    \/ Generate(Outcomes({<<Fence("yaml"), Line("services: []"), Fence("")>>}))
    \/ Distill(Answered(<<LB, Key("plugin_name"), Str("auth"), RB>>))
    \/ GenerateFiles(Answered(<<Fence("lua"), Line("return H"), Fence("")>>))
    \/ Validate(Answered(<<Prose>>))
    \/ ComputeCoverage(Answered(CoverageJson))
    \/ BuildReport(Outcomes(ReportTexts))
    \/ BuildTests(Answered(<<Line("#!/bin/bash")>>))
    \/ Respond

SpecConc == InitConc /\ [][NextConc]_vars

(***************************************************************************)
(* Specification SpecSections: _split_sections applied to every short text *)
(***************************************************************************)
SecAlphabet ==
    {Marker("x.lua"), Marker("y.md"), Fence("lua"), Line("a"), Line("schema.lua")}
SecTexts == SeqsUpTo(SecAlphabet, MaxSecLen)

InitSections ==
    /\ stext \in SecTexts
    /\ sout = Null
    /\ spc = "in"
    /\ IdleJson
    /\ IdleServer
    /\ IdleCall

ExtractFileSections ==
    /\ spc = "in"
    /\ sout' = split_sections(stext)
    /\ spc' = "out"
    /\ UNCHANGED <<stext, jvars, gvars, cvars, rvars, fvars>>

NextSections == ExtractFileSections

SpecSections == InitSections /\ [][NextSections]_vars

(***************************************************************************)
(* Specification SpecJson: _safe_json_loads applied to every short text    *)
(***************************************************************************)
JsonAlphabet == {LB, RB, LSB, RSB, Comma, Key("a"), Num(1), Prose}
JsonTexts == SeqsUpTo(JsonAlphabet, MaxJsonLen)

InitJson ==
    /\ jtext \in JsonTexts
    /\ jout = Null
    /\ jpc = "in"
    /\ IdleSections
    /\ IdleServer
    /\ IdleCall

ExtractJson ==
    /\ jpc = "in"
    /\ jout' = safe_json_loads(jtext)
    /\ jpc' = "out"
    /\ UNCHANGED <<jtext, svars, gvars, cvars, rvars, fvars>>

NextJson == ExtractJson

SpecJson == InitJson /\ [][NextJson]_vars

(***************************************************************************)
(* Specification SpecRender: the two prompt renderers applied to every     *)
(* short template                                                          *)
(***************************************************************************)
\* "V" is the name of a supplied variable, "a" is text and no variable
FormatAlphabet == {"{", "}", "a", "V"}
TemplateRoles == {"system", "user"}
TemplateMessages ==
    {Message(r, c) : r \in TemplateRoles, c \in SeqsUpTo(FormatAlphabet, MaxContentLen)}
Templates ==
    {t \in SeqsUpTo(TemplateMessages, MaxTemplateMsgs) :
        /\ Len(t) >= 1
        /\ \A k \in 2..Len(t) : t[k].role = "user"}
\* the keyword arguments of the call: V is supplied
Kwargs == [name \in {<<"V">>} |-> <<"v">>]

InitRender ==
    /\ callee = ""
    /\ farg \in Templates
    /\ fret = Null
    /\ fpc = "in"
    /\ IdleJson
    /\ IdleSections
    /\ IdleServer

FormatMessages ==
    /\ fpc = "in"
    /\ callee' = "format_messages"
    /\ fret' = format_messages(farg, Kwargs)
    /\ fpc' = "out"
    /\ UNCHANGED <<farg, jvars, svars, gvars, cvars, rvars>>

SafeFormatMessages ==
    /\ fpc = "in"
    /\ callee' = "_safe_format_messages"
    /\ fret' = safe_format_messages(farg, Kwargs)
    /\ fpc' = "out"
    /\ UNCHANGED <<farg, jvars, svars, gvars, cvars, rvars>>

NextRender == FormatMessages \/ SafeFormatMessages

SpecRender == InitRender /\ [][NextRender]_vars

(***************************************************************************)
(* Specification SpecNormalize: _normalize_messages applied to a bare      *)
(* string, to None and to every short list of entries                      *)
(***************************************************************************)
EntryRoles == {Absent, "", "system", "assistant"}
EntryContents == {Absent, "", "hi"}
Entries == {Message(r, c) : r \in EntryRoles, c \in EntryContents}
NormalizeInputs ==
    {Str(""), Str("hi"), Null} \cup {Arr(es) : es \in SeqsUpTo(Entries, MaxMessages)}

InitNormalize ==
    /\ callee = ""
    /\ farg \in NormalizeInputs
    /\ fret = Null
    /\ fpc = "in"
    /\ IdleJson
    /\ IdleSections
    /\ IdleServer

NormalizeMessages ==
    /\ fpc = "in"
    /\ callee' = "_normalize_messages"
    /\ fret' = normalize_messages(farg)
    /\ fpc' = "out"
    /\ UNCHANGED <<farg, jvars, svars, gvars, cvars, rvars>>

NextNormalize == NormalizeMessages

SpecNormalize == InitNormalize /\ [][NextNormalize]_vars

(***************************************************************************)
(* Specification SpecGemini: the text extraction of                        *)
(* _invoke_genaihub_gemini applied to every small response shape           *)
(***************************************************************************)
FieldStates == {"absent", "none", "present"}
Parts == [kind : {"dict", "object"}, text : {Absent, "P"}]
Candidates ==
    {[kind |-> k, content |-> c, parts_state |-> ps, parts |-> pp] :
        k \in {"dict", "object"}, c \in FieldStates, ps \in FieldStates,
        pp \in SeqsUpTo(Parts, MaxParts)}
\* a field that is not present has nothing in it
WellFormedCandidate(c) ==
    /\ c.content # "present" => c.parts_state = "absent"
    /\ c.parts_state # "present" => c.parts = <<>>
Responses ==
    {[output_text |-> t, candidates_state |-> cs, candidates |-> cc] :
        t \in {Absent, "", "T"}, cs \in {"absent", "present"},
        cc \in SeqsUpTo({c \in Candidates : WellFormedCandidate(c)}, MaxCandidates)}

InitGemini ==
    /\ callee = ""
    /\ farg \in {r \in Responses : r.candidates_state = "absent" => r.candidates = <<>>}
    /\ fret = Null
    /\ fpc = "in"
    /\ IdleJson
    /\ IdleSections
    /\ IdleServer

GeminiText ==
    /\ fpc = "in"
    /\ callee' = "_invoke_genaihub_gemini"
    /\ fret' = gemini_response_text(farg)
    /\ fpc' = "out"
    /\ UNCHANGED <<farg, jvars, svars, gvars, cvars, rvars>>

NextGemini == GeminiText

SpecGemini == InitGemini /\ [][NextGemini]_vars

(***************************************************************************)
(* Specification SpecValidate: Validator.validate on every short backend   *)
(* output, or on a backend call that raises                                *)
(***************************************************************************)
ValidateAlphabet ==
    {LB, RB, LSB, RSB, Key("is_valid"), Bool(TRUE), Prose, Fence("json")}
ValidateOutputs == Outcomes(SeqsUpTo(ValidateAlphabet, MaxValidationLen))

InitValidate ==
    /\ callee = ""
    /\ farg \in ValidateOutputs
    /\ fret = Null
    /\ fpc = "in"
    /\ IdleJson
    /\ IdleSections
    /\ IdleServer

ValidatorValidate ==
    /\ fpc = "in"
    /\ callee' = "validate"
    /\ fret' = validate(Null, Null, farg)
    /\ fpc' = "out"
    /\ UNCHANGED <<farg, jvars, svars, gvars, cvars, rvars>>

NextValidate == ValidatorValidate

SpecValidate == InitValidate /\ [][NextValidate]_vars

(***************************************************************************)
(* Specification SpecCoverage: Coverage.compute on an analysis text and    *)
(* on what the coverage backend answers: an object with or without a       *)
(* total, with or without a percentage, and with up to MaxMappings         *)
(* mappings; prose; or a call that raises                                  *)
(***************************************************************************)
Missing == Tok("absent")
\* one element of policy_mappings as the backend writes it
MappingTexts ==
    {<<LB, Key("kong_solution"), Str("key-auth"), RB>>,
     <<LB, Key("kong_solution"), Str(""), RB>>,
     <<Str("VerifyKey -> key-auth")>>}
Totals == {Missing, Null, Num(0), Num(3), Num(8), Num(10), Num(-3), Str("10")}
Percentages == {Missing, Num(50), Str("50%")}

RECURSIVE JoinComma(_)
JoinComma(texts) ==
    IF Len(texts) = 0 THEN <<>>
    ELSE IF Len(texts) = 1 THEN texts[1]
    ELSE texts[1] \o <<Comma>> \o JoinComma(Tail(texts))
Member(key, v) == IF v = Missing THEN <<>> ELSE <<Key(key), v, Comma>>
CoverageText(total, pct, mappings) ==
    <<LB>> \o Member("total_policies", total) \o Member("coverage_percentage", pct)
           \o <<Key("policy_mappings"), LSB>> \o JoinComma(mappings) \o <<RSB, RB>>
CoverageOutputs ==
    Outcomes({CoverageText(t, p, m) :
                 t \in Totals, p \in Percentages, m \in SeqsUpTo(MappingTexts, MaxMappings)}
             \cup {<<Prose>>, <<LB, RB>>})

\* {"policies_analysis": [{"policy_name": "VerifyKey"}, {"policy_type":
\*  "Quota"}, {"policy_name": "Quota"}]}
TwoNamedOfThree ==
    <<LB, Key("policies_analysis"), LSB,
      LB, Key("policy_name"), Str("VerifyKey"), RB, Comma,
      LB, Key("policy_type"), Str("Quota"), RB, Comma,
      LB, Key("policy_name"), Str("Quota"), RB, RSB, RB>>
CoverageAnalysisTexts == AnalysisTexts \cup {TwoNamedOfThree}

InitCoverage ==
    /\ callee = ""
    /\ farg \in [analysis_text : {Returned(t) : t \in CoverageAnalysisTexts},
                 out : CoverageOutputs]
    /\ fret = Null
    /\ fpc = "in"
    /\ IdleJson
    /\ IdleSections
    /\ IdleServer

CoverageCompute ==
    /\ fpc = "in"
    /\ callee' = "compute"
    /\ fret' = compute(farg.analysis_text, Null, farg.out)
    /\ fpc' = "out"
    /\ UNCHANGED <<farg, jvars, svars, gvars, cvars, rvars>>

NextCoverage == CoverageCompute

SpecCoverage == InitCoverage /\ [][NextCoverage]_vars

(***************************************************************************)
(* Specification SpecExtract: extract on a path that is no zip and on      *)
(* every archive of up to MaxEntries entries                               *)
(***************************************************************************)
EntryNames == {"a.xml", "B.XML", "s.js", "c.json"}
\* only undecodable bytes; text with an undecodable byte; text over every cap
RawContents ==
    {[chars |-> 0, bad |-> 2], [chars |-> 5, bad |-> 1], [chars |-> MAX_XML_LEN + 1, bad |-> 0]}
NoBytes == [chars |-> 0, bad |-> 0]
ArchiveEntries ==
    {[name |-> n, dir |-> FALSE, read |-> "ok", raw |-> r] : n \in EntryNames, r \in RawContents}
    \cup {[name |-> n, dir |-> FALSE, read |-> "error", raw |-> NoBytes] : n \in EntryNames}
    \cup {[name |-> "img.png", dir |-> FALSE, read |-> "ok", raw |-> [chars |-> 0, bad |-> 2]],
          [name |-> "t.xsl", dir |-> FALSE, read |-> "ok", raw |-> [chars |-> 5, bad |-> 0]],
          [name |-> "apiproxy/", dir |-> TRUE, read |-> "ok", raw |-> NoBytes]}
Archives ==
    {[stem |-> "proxy", opens |-> TRUE, entries |-> es] :
        es \in SeqsUpTo(ArchiveEntries, MaxEntries)}
    \cup {[stem |-> "proxy", opens |-> FALSE, entries |-> <<>>]}

InitExtract ==
    /\ callee = ""
    /\ farg \in Archives
    /\ fret = Null
    /\ fpc = "in"
    /\ IdleJson
    /\ IdleSections
    /\ IdleServer

Extract ==
    /\ fpc = "in"
    /\ callee' = "extract"
    /\ fret' = extract(farg)
    /\ fpc' = "out"
    /\ UNCHANGED <<farg, jvars, svars, gvars, cvars, rvars>>

NextExtract == Extract

SpecExtract == InitExtract /\ [][NextExtract]_vars

(***************************************************************************)
(* Specification SpecConfig: a process started under some environment and  *)
(* settings file, serving set_config requests and backend calls            *)
(***************************************************************************)
ConfigEnvs ==
    {DefaultEnv,
     [DefaultEnv EXCEPT !.LLM_MODEL = "gpt-4.1"],
     [DefaultEnv EXCEPT !.LLM_PROVIDER = "azure_openai", !.AZURE_OPENAI_DEPLOYMENT = "dep-a"],
     [LLM_PROVIDER |-> "azure_openai", LLM_MODEL |-> "gpt-4.1", MAX_TOKENS |-> "4000",
      TEMPERATURE |-> "0.7", AZURE_OPENAI_DEPLOYMENT |-> Unset]}
ConfigSettings ==
    {DefaultSettings,
     [provider |-> "genaihub_openai", model |-> "gpt-5", max_tokens |-> "2000",
      temperature |-> "0.0"]}
\* {"llm": {...}} with any of the four keys, and a body without "llm"
OverrideRequests ==
    {NoOverrides} \cup
    [has_llm : {TRUE}, provider : {Unset, "genaihub_gemini"},
     model : {Unset, "gemini-2.5-flash"}, max_tokens : {Unset, "1000"},
     temperature : {Unset, "1"}]

InitConfig ==
    /\ Globals(ConfigEnvs, ConfigSettings)
    /\ IdleConfig
    /\ IdleRun
    /\ IdleJson
    /\ IdleSections
    /\ IdleCall

NextConfig ==
    \/ SetConfig(OverrideRequests)
    \/ Invoke

SpecConfig == InitConfig /\ [][NextConfig]_vars

(***************************************************************************)
(* SharedFlowKongGenerator.combine_configurations                          *)
(* (sharedflows/shared-flow-services.py 530-580)                           *)
(***************************************************************************)
\* a config text that is the YAML document of the value v
YamlText(v) == JV("yamltext", 0, "", <<>>, <<v>>)
\* the empty config text
EmptyYaml == JV("yamltext", 0, "", <<>>, <<>>)
\* a config text that is no YAML document (a tab indent, a stray fence)
BadYaml == JV("yamltext", 0, "bad", <<>>, <<>>)
\* yaml.safe_load(text): the value of the document, None for an empty text.
\* A text made of a config text followed by a blank line and a comment line
\* (the line-580 text for no fragment) is the document of the config text;
\* no other composed text is loaded in the model.
RECURSIVE safe_load(_)
safe_load(text) ==
    IF text.t = "text" THEN safe_load(text.items[1])
    ELSE IF text.s = "bad" THEN Exc("YAMLError", <<>>)
    ELSE IF text.items = <<>> THEN Null
    ELSE text.items[1]
\* yaml.dump(value, default_flow_style=False, sort_keys=False)
yaml_dump(value) == YamlText(value)
\* the TypeError and AttributeError raised inside the try
CombineTypeError == TypeError("shared-flow-services.py", 558, "combine_configurations")
CombineAttributeError == AttributeError("shared-flow-services.py", 574, "combine_configurations")

\* key in container, for a dict (its keys) and a list (its elements); the
\* operator is applied to dicts and lists only, any other value of the model
\* raises TypeError at the call site
KeyIn(container, key) ==
    IF IsDict(container) THEN HasKey(container, key)
    ELSE \E i \in DOMAIN container.items : container.items[i] = Str(key)
\* the elements that iterating a value gives, as a list: a list's elements,
\* a dict's keys
Iterate(value) ==
    CASE IsList(value) -> value
      [] IsDict(value) -> Arr([i \in DOMAIN value.keys |-> Str(value.keys[i])])
      [] OTHER -> CombineTypeError
\* lines 557-559 for one parsed fragment: what it adds to all_sf_plugins
FragmentPlugins(sf_dict) ==
    IF ~(IsDict(sf_dict) \/ IsList(sf_dict)) THEN CombineTypeError
    ELSE IF ~KeyIn(sf_dict, "plugins") THEN Arr(<<>>)
    ELSE IF IsList(sf_dict) THEN CombineTypeError
    ELSE Iterate(Get(sf_dict, "plugins", Null))
\* lines 555-559: all_sf_plugins over the parsed fragments, in order
RECURSIVE all_sf_plugins(_)
all_sf_plugins(sf_dicts) ==
    IF sf_dicts = <<>> THEN Arr(<<>>)
    ELSE LET first == FragmentPlugins(Head(sf_dicts)) IN
         IF IsExc(first) THEN first
         ELSE LET rest == all_sf_plugins(Tail(sf_dicts)) IN
              IF IsExc(rest) THEN rest
              ELSE Arr(first.items \o rest.items)
\* the entries of a list that are not among the entries of another
RECURSIVE NotAmong(_, _)
NotAmong(entries, present) ==
    IF entries = <<>> THEN <<>>
    ELSE IF \E i \in DOMAIN present : present[i] = Head(entries)
         THEN NotAmong(Tail(entries), present)
         ELSE <<Head(entries)>> \o NotAmong(Tail(entries), present)
\* a combiner that leaves out the plugins the holder already lists
ExtendPluginsDeduplicated(holder, plugins) ==
    IF ~(IsDict(holder) \/ IsList(holder)) THEN CombineTypeError
    ELSE IF IsList(holder)
         THEN CombineTypeError
    ELSE LET current == Get(holder, "plugins", Arr(<<>>)) IN
         IF ~IsList(current) THEN CombineAttributeError
         ELSE SetItem(holder, "plugins",
                      Arr(current.items \o NotAmong(plugins.items, current.items)))
\* lines 564-566 and 569-571 for one dict-like value: its plugin list is
\* created when missing and extended by the fragments' plugins
ExtendPlugins(holder, plugins) ==
    IF ~(IsDict(holder) \/ IsList(holder)) THEN CombineTypeError
    ELSE IF IsList(holder)
         THEN CombineTypeError
    ELSE LET current == Get(holder, "plugins", Arr(<<>>)) IN
         IF ~IsList(current) THEN CombineAttributeError
         ELSE SetItem(holder, "plugins", Arr(current.items \o plugins.items))
\* lines 563-566: every service of the list gets the fragments' plugins
RECURSIVE ExtendServices(_, _)
ExtendServices(services_list, plugins) ==
    IF services_list = <<>> THEN Arr(<<>>)
    ELSE LET first == ExtendPlugins(Head(services_list), plugins) IN
         IF IsExc(first) THEN first
         ELSE LET rest == ExtendServices(Tail(services_list), plugins) IN
              IF IsExc(rest) THEN rest
              ELSE Arr(<<first>> \o rest.items)
\* lines 562-566: the document after the services loop
WithServices(proxy_dict, plugins) ==
    IF ~(IsDict(proxy_dict) \/ IsList(proxy_dict)) THEN CombineTypeError
    ELSE IF ~KeyIn(proxy_dict, "services") THEN proxy_dict
    ELSE IF IsList(proxy_dict) THEN CombineTypeError
    ELSE LET listed == Iterate(Get(proxy_dict, "services", Null)) IN
         IF IsExc(listed) THEN listed
         ELSE LET extended == ExtendServices(listed.items, plugins) IN
              IF IsExc(extended) THEN extended
              ELSE IF IsList(Get(proxy_dict, "services", Null))
                   THEN SetItem(proxy_dict, "services", extended)
                   ELSE proxy_dict
\* line 574: the _comment value, the primary's name and the fragment count
Comment(proxy_name, count) == JV("comment", count, proxy_name.s, <<>>, <<>>)
WithComment(proxy_dict, proxy_analysis, shared_flow_analyses) ==
    IF ~IsDict(proxy_analysis) THEN CombineAttributeError
    ELSE SetItem(proxy_dict, "_comment",
                 Comment(Get(proxy_analysis, "proxy_name", Str("None")),
                         Len(shared_flow_analyses)))
\* lines 550-576: the body of the try, a text or the exception it raises
combine_try(proxy_config, shared_flow_configs, proxy_analysis, shared_flow_analyses) ==
    LET proxy_dict == safe_load(proxy_config)
        sf_dicts == [i \in DOMAIN shared_flow_configs |-> safe_load(shared_flow_configs[i])]
    IN  IF IsExc(proxy_dict) THEN proxy_dict
        ELSE IF \E i \in DOMAIN sf_dicts : IsExc(sf_dicts[i]) THEN Exc("YAMLError", <<>>)
        ELSE LET plugins == all_sf_plugins(sf_dicts) IN
             IF IsExc(plugins) THEN plugins
             ELSE LET served == WithServices(proxy_dict, plugins) IN
                  IF IsExc(served) THEN served
                  ELSE LET merged == ExtendPlugins(served, plugins) IN
                       IF IsExc(merged) THEN merged
                       ELSE LET noted == WithComment(merged, proxy_analysis, shared_flow_analyses) IN
                            IF IsExc(noted) THEN noted
                            ELSE yaml_dump(noted)
\* line 580: the primary text, a blank line, one header line, and the
\* fragments joined by newlines
SharedFlowHeader == Line("# Shared Flow Configurations")
Fallback(proxy_config, shared_flow_configs) ==
    TextV(<<proxy_config, Line(""), SharedFlowHeader>> \o shared_flow_configs)
combine_configurations(proxy_config, shared_flow_configs, proxy_analysis, shared_flow_analyses) ==
    LET text == combine_try(proxy_config, shared_flow_configs, proxy_analysis, shared_flow_analyses) IN
    IF IsExc(text) THEN Fallback(proxy_config, shared_flow_configs) ELSE text

(***************************************************************************)
(* combine_configurations on its own: a primary config text, up to         *)
(* MaxFragments fragment texts, and the analysis of the primary, which is  *)
(* a dict for a direct caller and the analyzer's text for the pipeline of  *)
(* api_combine_proxy_and_shared_flow (ApigeeAnalyzer.analyze returns str)  *)
(***************************************************************************)
Plugin(name) == Obj(<<"name">>, <<Str(name)>>)
Service(name) == Obj(<<"name">>, <<Str(name)>>)
ServiceWith(name, plugins) == Obj(<<"name", "plugins">>, <<Str(name), Arr(plugins)>>)
PrimaryTexts ==
    { YamlText(Obj(<<"services", "plugins">>,
                   <<Arr(<<Service("s1"), ServiceWith("s2", <<Plugin("cors")>>)>>),
                     Arr(<<Plugin("cors")>>)>>)),
      YamlText(Obj(<<"services">>, <<Arr(<<Service("s1")>>)>>)),
      YamlText(Obj(<<"services", "plugins">>,
                   <<Arr(<<ServiceWith("s1", <<>>)>>), Arr(<<>>)>>)),
      YamlText(Obj(<<"plugins">>, <<Arr(<<Plugin("cors")>>)>>)),
      YamlText(Obj(<<"plugins">>, <<Null>>)),
      YamlText(Arr(<<Service("s1")>>)),
      EmptyYaml,
      BadYaml }
FragmentTexts ==
    { YamlText(Obj(<<"plugins">>, <<Arr(<<Plugin("key-auth")>>)>>)),
      YamlText(Obj(<<"plugins">>, <<Arr(<<Plugin("cors"), Plugin("rate-limiting")>>)>>)),
      YamlText(Obj(<<"name">>, <<Str("sf")>>)),
      YamlText(Arr(<<Plugin("key-auth")>>)),
      EmptyYaml,
      BadYaml }
AnalysisDict == Obj(<<"proxy_name">>, <<Str("orders")>>)
AnalysisText == TextV(<<Line("analysis")>>)
CombineCalls ==
    { [proxy_config |-> p, shared_flow_configs |-> f, proxy_analysis |-> a,
       shared_flow_analyses |-> [i \in DOMAIN f |-> AnalysisDict]] :
      p \in PrimaryTexts, f \in SeqsUpTo(FragmentTexts, MaxFragments),
      a \in {AnalysisDict, AnalysisText} }

InitCombine ==
    /\ callee = ""
    /\ farg \in CombineCalls
    /\ fret = Null
    /\ fpc = "in"
    /\ IdleJson
    /\ IdleSections
    /\ IdleServer

Combine ==
    /\ fpc = "in"
    /\ callee' = "combine_configurations"
    /\ fret' = combine_configurations(farg.proxy_config, farg.shared_flow_configs,
                                      farg.proxy_analysis, farg.shared_flow_analyses)
    /\ fpc' = "out"
    /\ UNCHANGED <<farg, jvars, svars, gvars, cvars, rvars>>

\* the result of one call is combined again with no fragment
CombineAgain ==
    /\ fpc = "out"
    /\ callee = "combine_configurations"
    /\ farg.shared_flow_configs = <<>>
    /\ farg.proxy_config \in PrimaryTexts
    /\ farg' = [farg EXCEPT !.proxy_config = fret]
    /\ callee' = ""
    /\ fret' = Null
    /\ fpc' = "in"
    /\ UNCHANGED <<jvars, svars, gvars, cvars, rvars>>

NextCombine == Combine \/ CombineAgain

SpecCombine == InitCombine /\ [][NextCombine]_vars

(***************************************************************************)
(* C1, C2: what a finished run returns                                     *)
(***************************************************************************)
PackageFields ==
    {"kong_config", "custom_plugins", "coverage", "validation", "migration_report",
     "test_scripts"}
\* the stages whose backend failure aborts the run
AbortingStages == {"analyze", "generate", "validate", "coverage", "report", "tests"}
\* a backend call of one of the stages raised
Raised(stages) ==
    \E i \in DOMAIN calls : calls[i].stage \in stages /\ IsExc(calls[i].ret)
\* a run of api_generate on an uploaded bundle has returned
Finished == pc = "done" /\ upload

\* C1: a finished run returns an error holding none of the package fields
\* when the backend call of analyze, generate-config, validate,
\* compute-coverage, build-report or build-tests raised, and otherwise the
\* package with all of its fields.
C1_ErrorOrFullPackage ==
    Finished =>
        IF Raised(AbortingStages)
        THEN DOMAIN result.body \cap PackageFields = {}
        ELSE PackageFields \subseteq DOMAIN result.body

\* C2: whatever texts the backend returns, a run in which no backend call
\* raises completes and returns the package, not an error.
C2_MalformedTextNeverAborts ==
    (Finished /\ ~Raised(AbortingStages \cup {"distill", "genfiles"})) =>
        result.status = 200

(***************************************************************************)
(* C3: the order of the stages and what they are handed                    *)
(***************************************************************************)
StageCalls(st) == {i \in DOMAIN calls : calls[i].stage = st}
\* every call of stage b comes after a call of stage a that returned
CompletesBefore(a, b) ==
    \A j \in StageCalls(b) : \E i \in StageCalls(a) : i < j /\ ~IsExc(calls[i].ret)
\* what the one call of stage st returned
ReturnOf(st) == calls[CHOOSE i \in StageCalls(st) : TRUE].ret

IsBlankOrFence(l) == l = Line("") \/ l.t = "fence"
\* t is raw without its enclosing fence lines: a slice of raw that leaves
\* out only fence and empty lines and neither opens with a yaml fence nor
\* closes with a fence
FenceStrippedOf(t, raw) ==
    /\ \E a \in 1..(Len(raw.items) + 1) : \E b \in 0..Len(raw.items) :
          /\ t.items = SubSeq(raw.items, a, b)
          /\ \A i \in DOMAIN raw.items : (i < a \/ i > b) => IsBlankOrFence(raw.items[i])
    /\ t.items # <<>> =>
          /\ ~(t.items[1].t = "fence" /\ t.items[1].s \in {"", "yaml", "yml"})
          /\ t.items[Len(t.items)] # Fence("")

\* C3: analyze completes before generate-config starts, generate-config
\* before extension generation, validate and compute-coverage,
\* compute-coverage before build-report and build-tests; validate,
\* compute-coverage and build-tests are handed the fence-stripped text
\* generate-config returned, and every stage after analyze that takes the
\* analysis is handed the text analyze returned.
C3_StagesInOrderOnSameTexts ==
    /\ CompletesBefore("analyze", "generate")
    /\ \A st \in {"distill", "genfiles", "validate", "coverage"} : CompletesBefore("generate", st)
    /\ \A st \in {"report", "tests"} : CompletesBefore("coverage", st)
    /\ \A j \in DOMAIN calls :
          /\ calls[j].stage \in {"generate", "distill", "validate", "coverage", "report", "tests"}
                => calls[j].analysis = ReturnOf("analyze")
          /\ calls[j].stage \in {"validate", "coverage", "tests"}
                => /\ FenceStrippedOf(calls[j].kong, ReturnOf("generate"))
                   /\ \A i \in DOMAIN calls :
                         calls[i].stage \in {"validate", "coverage", "tests"}
                            => calls[i].kong = calls[j].kong

\* C3 witness: a run over two script files returned the package after every
\* stage was called, on a target-config text that came wrapped in fences.
C3_Witness ==
    /\ Finished
    /\ result.status = 200
    /\ Len(bundle.code_files) = 2
    /\ \A st \in AbortingStages \cup {"distill", "genfiles"} : StageCalls(st) # {}
    /\ kong_yaml.items = <<Line("services: []")>>
    /\ Len(ReturnOf("generate").items) = 3
    /\ ReturnOf("generate").items[1].t = "fence"

(***************************************************************************)
(* C4: a run served while set_config is served                             *)
(***************************************************************************)
Configuration(adapter) == <<adapter.provider, adapter.model>>

\* C4: whatever set_config requests are served meanwhile, the stage calls
\* of a run all use one and the same adapter configuration (provider and
\* model): the run never sees some stage objects on the adapter from before
\* a reconfiguration and others on the adapter it created.
C4_OneAdapterPerRun ==
    \A i, j \in DOMAIN calls :
        Configuration(calls[i].adapter) = Configuration(calls[j].adapter)

(***************************************************************************)
(* C5, C6: the loop over the script files                                  *)
(***************************************************************************)
\* C5: once the loop over the script files is through, the extensions map
\* has one entry per script file, and the output of every file is in it.
C5_OneEntryPerFile ==
    pc = "validate" =>
        /\ Len(plugins_out.keys) = Len(bundle.code_files)
        /\ \A k \in DOMAIN produced :
              \E i \in DOMAIN plugins_out.items : plugins_out.items[i] = produced[k].content

\* the backend call of stage st for the k-th script file raised
RaisedFor(st, k) ==
    \E i \in StageCalls(st) : calls[i].file = k /\ IsExc(calls[i].ret)

\* C6: a backend call that raises while distilling the spec or generating
\* the files of a script file does not abort the run: the file still gets
\* its extension, named custom_<stem> when it was the distilling that failed
\* and with the placeholder handler when it was the generating, and the
\* loop goes on.
C6_RaiseInLoopFallsBack ==
    /\ \A i \in DOMAIN calls :
          (calls[i].stage = "genfiles" /\ (RaisedFor("distill", calls[i].file) \/ IsExc(calls[i].ret)))
             => /\ pc # "done" \/ i < Len(calls) \/ result.status = 200
                /\ Len(produced) >= calls[i].file
    /\ \A k \in DOMAIN produced :
          /\ RaisedFor("distill", k) => produced[k].key = CustomName(produced[k].file)
          /\ RaisedFor("genfiles", k) =>
                \E a \in DOMAIN produced[k].content.items :
                    SubSeq(produced[k].content.items, a, a + Len(HandlerPlaceholder.items) - 1)
                        = HandlerPlaceholder.items

(***************************************************************************)
(* C7: what the error of an aborted run tells                              *)
(***************************************************************************)
StageModule ==
    [analyze |-> "services/apigee_analyzer.py", generate |-> "services/kong_generator.py",
     validate |-> "services/validation.py", coverage |-> "services/coverage.py",
     report |-> "services/report.py", tests |-> "services/test_scripts.py"]
\* the stages an error body points at: those with a frame in its traceback
StagesNamed(body) ==
    {st \in DOMAIN StageModule :
        \E i \in DOMAIN body.traceback : body.traceback[i].s = StageModule[st]}
LastCall == calls[Len(calls)]
\* the run was aborted by the backend call of an aborting stage raising
AbortedByBackend ==
    /\ Finished
    /\ calls # <<>>
    /\ LastCall.stage \in AbortingStages
    /\ IsExc(LastCall.ret)

\* C7: when the backend call of a stage raises and aborts the run, the error
\* returned points at that stage and at no other, so that the same exception
\* raised in two different stages gives two different errors.
C7_ErrorNamesStage ==
    AbortedByBackend =>
        /\ result.status = 500
        /\ result.body.error = LastCall.ret.s
        /\ StagesNamed(result.body) = {LastCall.stage}

\* C7 witness: the backend call of compute-coverage raised after analyze,
\* generate-config and validate had returned, and the run was aborted.
C7_Witness ==
    /\ AbortedByBackend
    /\ LastCall.stage = "coverage"
    /\ LastCall.ret = TransportError
    /\ result.status = 500

(***************************************************************************)
(* C11, C12: rendering a prompt template                                   *)
(***************************************************************************)
Rendered == fpc = "out" /\ callee \in {StageRenderer[st] : st \in DOMAIN StageRenderer}
\* the content is plain text around one placeholder {a}, a name that is not
\* supplied
HasUnknownPlaceholderOnly(content) ==
    /\ \E i \in 1..(Len(content) - 2) :
          /\ SubSeq(content, i, i + 2) = <<"{", "a", "}">>
          /\ \A k \in DOMAIN content : content[k] \in {"{", "}"} => k \in {i, i + 2}
\* the content has the text of c at some place
Contains(content, c) ==
    \E i \in 1..(Len(content) - Len(c) + 1) : SubSeq(content, i, i + Len(c) - 1) = c

\* C11: rendering a template whose content holds a placeholder for which no
\* variable is supplied does not raise and returns the message with the
\* placeholder text unchanged in its content, whichever of the stages'
\* renderers is used.
C11_UnknownPlaceholderKept ==
    (Rendered /\ \E k \in DOMAIN farg : HasUnknownPlaceholderOnly(farg[k].content)) =>
        /\ ~IsExc(fret)
        /\ \A k \in DOMAIN farg :
              HasUnknownPlaceholderOnly(farg[k].content)
                 => Contains(fret.items[k].content, <<"{", "a", "}">>)

\* C12: rendering never raises, whatever literal braces the contents hold,
\* and returns one message per template message, with the same role.
C12_LiteralBracesNeverRaise ==
    Rendered =>
        /\ ~IsExc(fret)
        /\ Len(fret.items) = Len(farg)
        /\ \A k \in DOMAIN farg : fret.items[k].role = farg[k].role

(***************************************************************************)
(* C13: message normalization                                              *)
(***************************************************************************)
\* the entries of a list input that have content, in order, role defaulted
RECURSIVE WithContent(_, _)
WithContent(entries, n) ==
    IF n = 0 THEN <<>>
    ELSE IF entries[n].content \in {Absent, ""} THEN WithContent(entries, n - 1)
    ELSE Append(WithContent(entries, n - 1),
                [role |-> IF entries[n].role \in {Absent, ""} THEN "user" ELSE entries[n].role,
                 content |-> entries[n].content])

\* C13: the normalized list is never empty, every message in it has
\* non-empty content and a non-empty role, a missing role having become
\* "user"; the entries of a list without content are not in it; a bare
\* string becomes exactly one user message.
C13_NormalizedNeverEmpty ==
    (fpc = "out" /\ callee = "_normalize_messages") =>
        /\ Len(fret.items) >= 1
        /\ \A k \in DOMAIN fret.items :
              fret.items[k].content # "" /\ fret.items[k].role # ""
        /\ farg.t = "str" =>
              /\ Len(fret.items) = 1
              /\ fret.items[1].role = "user"
              /\ farg.s # "" => fret.items[1].content = farg.s
        /\ (farg.t = "arr" /\ WithContent(farg.items, Len(farg.items)) # <<>>)
              => fret.items = WithContent(farg.items, Len(farg.items))

(***************************************************************************)
(* C14: the text of a native response                                      *)
(***************************************************************************)
HasDirectText(resp) == resp.output_text \notin {Absent, ""}
\* the first candidate exists and its first part exists and has a text
HasFirstPartText(resp) ==
    /\ resp.candidates_state = "present"
    /\ Len(resp.candidates) >= 1
    /\ resp.candidates[1].content = "present"
    /\ resp.candidates[1].parts_state = "present"
    /\ Len(resp.candidates[1].parts) >= 1
    /\ resp.candidates[1].parts[1].text # Absent

\* C14: taking the text from a response never raises; it is the direct text
\* when that is present and not empty, else the text of the first part of
\* the first candidate when there is one, and in every other case the
\* string serialization of the whole response.
C14_TextExtractionTotal ==
    (fpc = "out" /\ callee = "_invoke_genaihub_gemini") =>
        /\ ~IsExc(fret)
        /\ IF HasDirectText(farg) THEN fret = Str(farg.output_text)
           ELSE IF HasFirstPartText(farg)
           THEN fret = Str(farg.candidates[1].parts[1].text)
           ELSE fret = Repr(farg)

(***************************************************************************)
(* C15: the validation result for an output that is not the structure      *)
(***************************************************************************)
\* the output is a JSON object, the structure the validation prompt asks for
ParsesAsStructure(out) == IsDict(json_loads(out.items))
\* valid=false, a non-empty errors list, warnings and suggestions lists
IsFailedValidation(v) ==
    /\ IsDict(v)
    /\ Get(v, "is_valid", Null) = Bool(FALSE)
    /\ IsList(Get(v, "errors", Null)) /\ Len(Get(v, "errors", Null).items) > 0
    /\ IsList(Get(v, "warnings", Null))
    /\ IsList(Get(v, "suggestions", Null))

\* C15: when the backend returned an output that does not parse as the
\* expected structure, validate returns valid=false with a non-empty errors
\* list and with warnings and suggestions as lists.
C15_UnparseableIsInvalid ==
    (fpc = "out" /\ callee = "validate" /\ ~IsExc(farg) /\ ~ParsesAsStructure(farg)) =>
        IsFailedValidation(fret)

(***************************************************************************)
(* C16: the package of a successful run                                    *)
(***************************************************************************)
ValidationFields == {"is_valid", "errors", "warnings", "suggestions"}
CoverageFields ==
    {"total_policies", "coverage_percentage", "policy_mappings", "not_required_policies",
     "bundling_analysis"}
HasFields(v, fields) == IsDict(v) /\ \A f \in fields : HasKey(v, f)

\* C16: the package of a successful run holds the target config, the
\* custom-extensions map, the coverage report, the validation result, the
\* report and the test scripts, none of them null; the validation result
\* and the coverage report carry all of their fields.
C16_PackageFullyPopulated ==
    (Finished /\ result.status = 200) =>
        /\ PackageFields \subseteq DOMAIN result.body
        /\ \A f \in PackageFields : result.body[f] # Null
        /\ HasFields(result.body.validation, ValidationFields)
        /\ HasFields(result.body.coverage, CoverageFields)

(***************************************************************************)
(* C17, C18: the percentage and the total of the coverage report           *)
(***************************************************************************)
\* compute got as far as the backend, and the backend answered
BackendAnswered ==
    /\ fpc = "out" /\ callee = "compute"
    /\ ~IsExc(compute_policies(farg.analysis_text))
    /\ ~IsExc(farg.out)
\* the object the backend answered, {} when it answered none
Answer == AsDict(coverage_safe_json_loads(farg.out.items))
GivesPercentage == IsNumber(Get(Answer, "coverage_percentage", Null))
\* the mappings of the answer that are an object with a non-empty kong
\* solution
MappedIn(answer) ==
    LET pm == Get(answer, "policy_mappings", Arr(<<>>))
    IN  IF ~IsList(pm) THEN 0
        ELSE Cardinality({i \in DOMAIN pm.items :
                             /\ IsDict(pm.items[i])
                             /\ Truthy(Get(pm.items[i], "kong_solution", Null))})
Abs(x) == IF x < 0 THEN -x ELSE x
\* p is an integer nearest to 100 * m / t
NearestPercent(p, m, t) == 2 * Abs(p * t - 100 * m) <= Abs(t)

\* C17: when the backend's answer gives no numeric coverage percentage,
\* compute sets it to 100 x (mappings with a non-empty target solution) /
\* total, rounded to an integer, and to 0 when the total is 0; 4 of 10 gives
\* 40.  A numeric percentage of the answer is left unchanged.
C17_PercentageRecomputed ==
    BackendAnswered =>
        /\ IsDict(fret)
        /\ IF GivesPercentage
           THEN Get(fret, "coverage_percentage", Null) = Get(Answer, "coverage_percentage", Null)
           ELSE IF ~Truthy(Get(fret, "total_policies", Null))
           THEN Get(fret, "coverage_percentage", Null) = Num(0)
           ELSE /\ IsNumber(Get(fret, "total_policies", Null))
                /\ Get(fret, "coverage_percentage", Null).t = "num"
                /\ NearestPercent(Get(fret, "coverage_percentage", Null).n,
                                  MappedIn(Answer), Get(fret, "total_policies", Null).n)

\* the elements of the analysis' policies_analysis that carry a name
NamedPolicies(analysis_text) ==
    LET a == coverage_safe_json_loads(analysis_text.items)
        pa == Get(a, "policies_analysis", Arr(<<>>))
    IN  IF ~IsList(pa) THEN 0
        ELSE Cardinality({i \in DOMAIN pa.items :
                             /\ IsDict(pa.items[i])
                             /\ Truthy(Get(pa.items[i], "policy_name", Null))})

\* C18: every coverage report compute returns has a total that is a number
\* >= 0, whatever the backend answered; when the answer gives no total, the
\* total is the number of named policies of the analysis text.
C18_TotalNonNegative ==
    (fpc = "out" /\ callee = "compute" /\ ~IsExc(fret)) =>
        /\ IsNumber(Get(fret, "total_policies", Null))
        /\ Get(fret, "total_policies", Null).n >= 0
        /\ ~HasKey(Answer, "total_policies") =>
               Get(fret, "total_policies", Null) = Num(NamedPolicies(farg.analysis_text))

(***************************************************************************)
(* C19, C20: the bundle extract returns                                    *)
(***************************************************************************)
Extracted == fpc = "out" /\ callee = "extract"
FileMaps == {"xml_files", "code_files", "config_files"}
CategoryOf(name) ==
    IF LowerExt(name) = ".xml" THEN "xml_files"
    ELSE IF LowerExt(name) \in CODE_EXTS THEN "code_files"
    ELSE "config_files"
CapOf(category) ==
    CASE category = "xml_files" -> MAX_XML_LEN
      [] category = "code_files" -> MAX_CODE_LEN
      [] category = "config_files" -> MAX_CFG_LEN
\* the read of entry i of the archive raises
ReadFails(archive, i) ==
    /\ ~archive.entries[i].dir
    /\ LowerExt(archive.entries[i].name) \in TEXT_EXTS
    /\ archive.entries[i].read = "error"
\* the entries walked before the first error, all of them when there is none
BeforeError(archive) ==
    {i \in DOMAIN archive.entries : \A j \in 1..i : ~ReadFails(archive, j)}
\* entry i is a file of the category with text to keep
Collectable(archive, i, category) ==
    /\ ~archive.entries[i].dir
    /\ LowerExt(archive.entries[i].name) \in TEXT_EXTS
    /\ CategoryOf(archive.entries[i].name) = category
    /\ archive.entries[i].read = "ok"
    /\ archive.entries[i].raw.chars > 0
\* the map of a category holds exactly the collectable entries among
\* `among`, each name with the text of its last entry, cut to the cap
HoldsExactly(files, archive, among, category) ==
    /\ DOMAIN files = {archive.entries[i].name : i \in {k \in among : Collectable(archive, k, category)}}
    /\ \A i \in among :
          (/\ Collectable(archive, i, category)
           /\ \A j \in among : (j > i /\ Collectable(archive, j, category)) =>
                  archive.entries[j].name # archive.entries[i].name)
          => files[archive.entries[i].name] =
                 Text(SetMin({archive.entries[i].raw.chars, CapOf(category)}))
\* the three maps are present and every value is a text
IsBundle(b) ==
    /\ FileMaps \subseteq DOMAIN b
    /\ \A c \in FileMaps : \A n \in DOMAIN b[c] : DOMAIN b[c][n] = {"len"}

\* C19 as stated: extract returns a bundle with the three maps, holding
\* exactly the entries collected before the error, every value a decoded
\* text; an archive that yields no file gives three empty maps.
C19_Original ==
    Extracted =>
        /\ IsBundle(fret)
        /\ \A c \in FileMaps : HoldsExactly(fret[c], farg, BeforeError(farg), c)

\* C19, amended: extract returns a bundle with the three maps, holding
\* exactly the entries of the archive that could be read and decoded to a
\* non-empty text, the entries after one whose read failed included, every
\* value a decoded text; a path that is no zip and an archive that yields
\* no file give three empty maps.
C19_ReadableEntriesCollected ==
    Extracted =>
        /\ IsBundle(fret)
        /\ \A c \in FileMaps : HoldsExactly(fret[c], farg, DOMAIN farg.entries, c)
        /\ ~farg.opens => \A c \in FileMaps : fret[c] = <<>>

\* an entry whose read fails is followed by a readable one, which the
\* returned bundle holds
C19_Witness ==
    /\ Extracted
    /\ \E i, j \in DOMAIN farg.entries :
          /\ i < j
          /\ ReadFails(farg, i)
          /\ Collectable(farg, j, "xml_files")
          /\ farg.entries[j].name \in DOMAIN fret.xml_files

RECURSIVE TotalLen(_)
TotalLen(files) ==
    IF DOMAIN files = {} THEN 0
    ELSE LET n == CHOOSE x \in DOMAIN files : TRUE
         IN  files[n].len + TotalLen([m \in DOMAIN files \ {n} |-> files[m]])

\* C20: in the returned bundle the lengths of the texts of each map sum to
\* at most the cap of that map's category, however many files it holds.
C20_CategoryTotalCapped ==
    Extracted => \A c \in FileMaps : TotalLen(fret[c]) <= CapOf(c)

(***************************************************************************)
(* C21: every entry with content lands in one map                          *)
(***************************************************************************)
\* the maps of the bundle that hold the name
MapsHolding(b, name) == {c \in FileMaps : name \in DOMAIN b[c]}
\* entry i is a file that can be read and has text in it
ReadableWithContent(archive, i) ==
    /\ ~archive.entries[i].dir
    /\ archive.entries[i].read = "ok"
    /\ archive.entries[i].raw.chars > 0

\* C21: every readable non-directory entry with non-empty content is in
\* exactly one of the three maps of the returned bundle, and a directory
\* entry is in none.
C21_EveryEntryInOneMap ==
    Extracted =>
        \A i \in DOMAIN farg.entries :
            /\ ReadableWithContent(farg, i) =>
                   Cardinality(MapsHolding(fret, farg.entries[i].name)) = 1
            /\ farg.entries[i].dir => MapsHolding(fret, farg.entries[i].name) = {}

(***************************************************************************)
(* C22, C23: where an adapter's parameters come from, and that they stay   *)
(***************************************************************************)
\* the first of the four sources that defines a parameter
FirstDefined(override, env_value, settings_value, hard_default) ==
    IF override # Unset THEN override
    ELSE IF env_value # Unset THEN env_value
    ELSE IF settings_value # Unset THEN settings_value
    ELSE hard_default
\* what a request overrides
Override(data, key) == IF data.has_llm THEN data[key] ELSE Unset
\* the four parameters by the layers, for a request, an environment and a
\* settings file
Layered(data, env, settings) ==
    [provider |-> FirstDefined(Override(data, "provider"), env["LLM_PROVIDER"],
                               settings["provider"], "genaihub_langchain"),
     model |-> FirstDefined(Override(data, "model"), env["LLM_MODEL"],
                            settings["model"], "anthropic--claude-4.5-sonnet"),
     max_tokens |-> FirstDefined(Override(data, "max_tokens"), env["MAX_TOKENS"],
                                 settings["max_tokens"], "8000"),
     temperature |-> ToFloat(FirstDefined(Override(data, "temperature"), env["TEMPERATURE"],
                                          settings["temperature"], "0.2"))]
Parameters(adapter) ==
    [provider |-> adapter.provider, model |-> adapter.model,
     max_tokens |-> adapter.max_tokens, temperature |-> adapter.temperature]

\* C22: the adapter built at start has each parameter from the first of
\* environment, settings file, hard default that defines it; the adapter a
\* reconfiguration request builds has each parameter from the first of the
\* request's override, the environment the request found, the settings
\* file, the hard default.
C22_LayeredConfiguration ==
    /\ [](created = 1 => Parameters(LLM) = Layered(NoOverrides, environ, SETTINGS))
    /\ [][created' = created + 1 =>
             Parameters(LLM') = Layered(cdata', environ, SETTINGS)]_vars

\* C23: every invoke of an adapter hands the backend the provider, model,
\* max output size and temperature the adapter resolved at construction.
C23_InvokeUsesConstructionValues ==
    (fpc = "out" /\ callee = "invoke") => fret = Parameters(farg)

(***************************************************************************)
(* C24, C25, C26, C30: combine_configurations                              *)
(***************************************************************************)
Combined == fpc = "out" /\ callee = "combine_configurations"
ParsesAsMapping(text) == IsDict(safe_load(text))
AllParseAsMappings ==
    /\ ParsesAsMapping(farg.proxy_config)
    /\ \A i \in DOMAIN farg.shared_flow_configs : ParsesAsMapping(farg.shared_flow_configs[i])
IsStructured(text) == text.t = "yamltext"
IsHeaderLine(piece) == piece.t = "line" /\ piece.s # ""
IsConfigText(piece) == piece.t # "line"
\* the primary followed by every fragment, in order, and every fragment
\* directly under a header line
SectionedConcatenation(text, primary, fragments) ==
    /\ text.t = "text"
    /\ SelectSeq(text.items, IsConfigText) = <<primary>> \o fragments
    /\ \A i \in DOMAIN text.items :
          (i > 1 /\ IsConfigText(text.items[i])) => IsHeaderLine(text.items[i - 1])

\* C24: combine never raises, and when the primary or a fragment does not
\* parse as a structured mapping the result is the text of the primary
\* followed by every fragment, each fragment under its own section header.
C24_FallbackSectionPerFragment ==
    Combined =>
        /\ ~IsExc(fret)
        /\ ~AllParseAsMappings =>
              SectionedConcatenation(fret, farg.proxy_config, farg.shared_flow_configs)

\* the plugin entries of a parsed document or service
PluginsOf(value) ==
    IF IsDict(value) /\ IsList(Get(value, "plugins", Null))
    THEN Get(value, "plugins", Null).items
    ELSE <<>>
\* the plugin entries of the fragments, in fragment order
RECURSIVE FragmentEntries(_)
FragmentEntries(fragments) ==
    IF fragments = <<>> THEN <<>>
    ELSE PluginsOf(safe_load(Head(fragments))) \o FragmentEntries(Tail(fragments))
\* the pipeline of api_combine_proxy_and_shared_flow passes the analyzer's
\* text as the analysis of the primary
PipelineCall == farg.proxy_analysis = AnalysisText
IsProvenance(value, count) == value.t = "comment" /\ value.n = count

\* C25: called by the combined pipeline with a primary and fragments that
\* all parse as mappings, combine returns a structured document whose
\* top-level plugins are the primary's followed by every fragment's, in
\* order and undeduplicated, with an annotation carrying the fragment count.
C25_PipelineMergesStructured ==
    (Combined /\ PipelineCall /\ AllParseAsMappings) =>
        /\ IsStructured(fret)
        /\ PluginsOf(safe_load(fret)) =
              PluginsOf(safe_load(farg.proxy_config)) \o FragmentEntries(farg.shared_flow_configs)
        /\ IsProvenance(Get(safe_load(fret), "_comment", Null), Len(farg.shared_flow_configs))

\* a dict without the key k
RECURSIVE Without(_, _)
Without(d, k) ==
    IF d.keys = <<>> THEN d
    ELSE LET rest == Without([d EXCEPT !.keys = Tail(@), !.items = Tail(@)], k) IN
         IF Head(d.keys) = k THEN rest
         ELSE [rest EXCEPT !.keys = <<Head(d.keys)>> \o @, !.items = <<Head(d.items)>> \o @]
SameApartFromAnnotation(a, b) ==
    /\ IsDict(a)
    /\ IsDict(b)
    /\ Without(a, "_comment") = Without(b, "_comment")

\* C26: with no fragment the result is the primary's document apart from
\* the annotation, and combining the result again changes nothing.
C26_EmptyFragmentsKeepPrimary ==
    (Combined /\ farg.shared_flow_configs = <<>> /\ ParsesAsMapping(farg.proxy_config)) =>
        /\ SameApartFromAnnotation(safe_load(fret), safe_load(farg.proxy_config))
        /\ safe_load(combine_configurations(fret, <<>>, farg.proxy_analysis, <<>>)) = safe_load(fret)

\* the services of a parsed document
ServicesOf(value) ==
    IF IsDict(value) /\ IsList(Get(value, "services", Null))
    THEN Get(value, "services", Null).items
    ELSE <<>>
\* how often the entry occurs in a list of entries
RECURSIVE Occurrences(_, _)
Occurrences(entry, entries) ==
    IF entries = <<>> THEN 0
    ELSE (IF Head(entries) = entry THEN 1 ELSE 0) + Occurrences(entry, Tail(entries))
\* how often the entry occurs in the plugin lists of a document: at top
\* level and in every service
RECURSIVE InServices(_, _)
InServices(entry, services_list) ==
    IF services_list = <<>> THEN 0
    ELSE Occurrences(entry, PluginsOf(Head(services_list))) + InServices(entry, Tail(services_list))
InDocument(entry, doc) ==
    Occurrences(entry, PluginsOf(doc)) + InServices(entry, ServicesOf(doc))

Returned500 == pc = "done" /\ result.status = 500
TempFileLeft == disk.file \in {"created", "saved"}

\* C29: when the run has returned, with its package or with an error from
\* any stage or from extraction, the temp file of the upload is gone; and it
\* is deleted only after extraction has opened it.
C29_TempFileDeletedOnReturn ==
    /\ pc = "done" => ~TempFileLeft
    /\ disk.file = "deleted" => disk.read

(***************************************************************************)
(* C27: how often the backend is called in one run                         *)
(***************************************************************************)
SingleStages == {"analyze", "generate", "validate", "coverage", "report", "tests"}
PackageReturned == pc = "done" /\ result.status = 200
\* the backend calls made for the i-th script file of the bundle
FileCalls(i) == {j \in DOMAIN calls : calls[j].file = i /\ calls[j].stage \in {"distill", "genfiles"}}
FileStageCalls(i, st) == {j \in FileCalls(i) : calls[j].stage = st}
\* no call that raised is made a second time
NeverInvokedAgain ==
    \A j, k \in DOMAIN calls :
        (j < k /\ IsExc(calls[j].ret)) =>
            ~(calls[k].stage = calls[j].stage /\ calls[k].file = calls[j].file)
EachStageOnce ==
    \A st \in SingleStages :
        /\ Cardinality(StageCalls(st)) <= 1
        /\ PackageReturned => Cardinality(StageCalls(st)) = 1

ExtensionFiles == {"handler.lua", "schema.lua", "README.md"}
\* what the backend's text provides: the sections split_sections finds
Provided(out) == IF IsExc(out) THEN EmptyObj ELSE split_sections(out.items)
Provides(out, name) == Truthy(Get(Provided(out), name, Null))
\* a schema text built from the config fields of the spec
IsSchemaOf(text, sp) ==
    /\ Len(text.items) = 1
    /\ text.items[1].t = "schema"
    /\ text.items[1].keys = Get(sp, "config", EmptyObj).keys
IsPlaceholder(name, text, sp) ==
    CASE name = "handler.lua" -> text = HandlerPlaceholder
      [] name = "schema.lua" -> IsSchemaOf(text, sp)
      [] name = "README.md" -> text = ReadmePlaceholder(sp)

\* C28: whatever the spec and whatever the backend did, generate_files
\* returns a map with handler.lua, schema.lua and README.md, none empty:
\* what the backend provided is kept, what it did not is the placeholder.
C28_ThreeFilesNeverEmpty ==
    (fpc = "out" /\ callee = "generate_files") =>
        /\ IsDict(fret)
        /\ \A name \in ExtensionFiles :
              /\ HasKey(fret, name)
              /\ Truthy(Get(fret, name, Null))
              /\ IF Provides(farg.out, name)
                 THEN Get(fret, name, Null) = Get(Provided(farg.out), name, Null)
                 ELSE IsPlaceholder(name, Get(fret, name, Null), farg.spec)

(***************************************************************************)
(* C8, C10                                                                 *)
(***************************************************************************)
\* the spans of the text that are syntactically valid brace-delimited objects
ValidObjectSpans(text) ==
    {sp \in (1..Len(text)) \X (1..Len(text)) :
        /\ sp[1] < sp[2]
        /\ text[sp[1]].t = "{"
        /\ text[sp[2]].t = "}"
        /\ json_loads(SubSeq(text, sp[1], sp[2])) # JSONDecodeError}

LargestObjects(text) ==
    {json_loads(SubSeq(text, sp[1], sp[2])) :
        sp \in {q \in ValidObjectSpans(text) :
                  \A r \in ValidObjectSpans(text) : r[2] - r[1] <= q[2] - q[1]}}

\* C8: for every text that contains at least one syntactically valid
\* brace-delimited JSON object, _safe_json_loads returns the largest such
\* object by span.  Stated for the texts that are not JSON documents as a
\* whole (prose around the objects), where the scan decides the result.
C8_LargestObjectReturned ==
    (/\ jpc = "out"
     /\ json_loads(jtext) = JSONDecodeError
     /\ ValidObjectSpans(jtext) # {}) => jout \in LargestObjects(jtext)

\* C10: for every text, the value _safe_json_loads returns is a JSON object
\* (a mapping), also when the whole text parses as an array or a scalar.
C10_ResultIsObject ==
    jpc = "out" => IsDict(jout)

(***************************************************************************)
(* C9                                                                      *)
(***************************************************************************)
MarkerLines(text) == {i \in DOMAIN text : text[i].t = "marker"}
TwoDistinctMarkers(text) ==
    /\ Cardinality(MarkerLines(text)) = 2
    /\ text[Nth(MarkerLines(text), 1)].s # text[Nth(MarkerLines(text), 2)].s
\* the lines after the k-th marker, up to the next marker or the end
Between(text, k) ==
    LET M == MarkerLines(text)
    IN  SubSeq(text, Nth(M, k) + 1,
               IF k < Cardinality(M) THEN Nth(M, k + 1) - 1 ELSE Len(text))
Blanked(lines) == [i \in DOMAIN lines |-> IF lines[i].t = "fence" THEN Line("") ELSE lines[i]]
Trimmed(lines) ==
    LET full == {i \in DOMAIN lines : lines[i] # Line("")}
    IN  IF full = {} THEN <<>> ELSE SubSeq(lines, SetMin(full), SetMax(full))

\* C9 as stated: on a text with two distinct marker lines the result has
\* exactly those two names as keys, each mapped to the trimmed text between
\* its marker and the next marker (or the end); on a text with no marker
\* the result has exactly one key.
C9_Original ==
    spc = "out" =>
        /\ TwoDistinctMarkers(stext) =>
              /\ Len(sout.keys) = 2
              /\ \A k \in 1..2 :
                    LET name == stext[Nth(MarkerLines(stext), k)].s
                    IN  /\ HasKey(sout, name)
                        /\ Get(sout, name, Null) = TextV(Trimmed(Between(stext, k)))
        /\ MarkerLines(stext) = {} => Len(sout.keys) = 1

\* C9 as amended: the bodies are the trimmed text between the markers with
\* every code-fence line blanked; with no marker the result is empty for the
\* empty text, has the two keys handler.lua and schema.lua (the text before
\* the first mention of schema.lua, the text after it up to the second)
\* when the text mentions schema.lua, and the one key handler.lua (the
\* whole trimmed text) otherwise.
C9_SectionsBounded ==
    spc = "out" =>
        /\ TwoDistinctMarkers(stext) =>
              /\ Len(sout.keys) = 2
              /\ \A k \in 1..2 :
                    LET name == stext[Nth(MarkerLines(stext), k)].s
                    IN  /\ HasKey(sout, name)
                        /\ Get(sout, name, Null) = TextV(Trimmed(Blanked(Between(stext, k))))
        /\ MarkerLines(stext) = {} =>
              LET S == {i \in DOMAIN stext : stext[i] = Line("schema.lua")}
              IN  IF Len(stext) = 0 THEN sout.keys = <<>>
                  ELSE IF S = {}
                  THEN /\ sout.keys = <<"handler.lua">>
                       /\ sout.items = <<TextV(Trimmed(Blanked(stext)))>>
                  ELSE /\ sout.keys = <<"handler.lua", "schema.lua">>
                       /\ sout.items[1] = TextV(Trimmed(Blanked(SubSeq(stext, 1, SetMin(S) - 1))))
                       /\ sout.items[2] =
                            TextV(Trimmed(Blanked(SubSeq(stext, SetMin(S) + 1,
                                IF Cardinality(S) >= 2 THEN Nth(S, 2) - 1 ELSE Len(stext)))))

\* C9 witness: a text with two distinct markers was split, and the first
\* section has a body that ends at the second marker.
C9_Witness ==
    /\ spc = "out"
    /\ TwoDistinctMarkers(stext)
    /\ Nth(MarkerLines(stext), 2) < Len(stext)
    /\ Len(sout.keys) = 2
    /\ \E k \in 1..2 : Truthy(sout.items[k])

====
